---- MODULE Spec2Model ----
(***************************************************************************)
(* Model of nesono/repo_structure: the rule compiler, the backlog matcher, *)
(* the full scanner and the diff scanner.                                  *)
(*                                                                         *)
(* Strings are sequences of one-character strings, so that path joining,   *)
(* splitting and regular-expression matching are computed, not assumed.    *)
(* A pattern is a sequence of tokens: a literal character or ".*".         *)
(***************************************************************************)
EXTENDS Naturals, Integers, Sequences, FiniteSets, TLC

\* ------------------------------------------------------------------ bounds
\* Deepest directory nesting of the repository trees that are scanned.
MaxDepth == 3
\* Largest number of filesystem entries of a scanned tree.
MaxEntries == 4
\* Largest number of entries of the structure rule under test.
MaxRuleLen == 2
\* Largest number of paths handed to one batch check.
MaxBatch == 2
\* Longest list of values of one template parameter.
MaxValues == 2
\* the number of full scans run one after the other on one Configuration
MaxScans == 2
\* the symbolic links the system follows while it resolves one path
MaxLinks == 2

\* ------------------------------------------------------------------ strings
SLASH == "/"
STAR == ".*"
\* the named group (?P<b>.*), one token of a pattern
GROUP == "(?P<b>.*)"
GroupName == <<"b">>

RECURSIVE Concat(_)
\* "".join(seq of strings)
Concat(ss) == IF ss = <<>> THEN <<>> ELSE Head(ss) \o Concat(Tail(ss))

StartsWith(s, c) == Len(s) > 0 /\ s[1] = c
EndsWith(s, c) == Len(s) > 0 /\ s[Len(s)] = c

RECURSIVE LStrip(_, _)
LStrip(s, c) == IF StartsWith(s, c) THEN LStrip(Tail(s), c) ELSE s

RECURSIVE RStrip(_, _)
RStrip(s, c) == IF EndsWith(s, c) THEN RStrip(SubSeq(s, 1, Len(s) - 1), c) ELSE s

\* str.strip(c)
Strip(s, c) == RStrip(LStrip(s, c), c)

RECURSIVE SplitFrom(_, _, _)
SplitFrom(s, c, cur) ==
    IF s = <<>> THEN <<cur>>
    ELSE IF Head(s) = c THEN <<cur>> \o SplitFrom(Tail(s), c, <<>>)
    ELSE SplitFrom(Tail(s), c, Append(cur, Head(s)))

\* str.split(c): always at least one part, "" splits into [""]
Split(s, c) == SplitFrom(s, c, <<>>)

RECURSIVE JoinWith(_, _)
\* c.join(parts)
JoinWith(parts, c) ==
    IF parts = <<>> THEN <<>>
    ELSE IF Len(parts) = 1 THEN parts[1]
    ELSE parts[1] \o <<c>> \o JoinWith(Tail(parts), c)

\* os.path.join(a, b) for a relative b
PathJoin(a, b) ==
    IF StartsWith(b, SLASH) THEN b
    ELSE IF a = <<>> \/ EndsWith(a, SLASH) THEN a \o b
    ELSE a \o <<SLASH>> \o b

\* the non-empty components of a path
Components(p) == SelectSeq(Split(p, SLASH), LAMBDA x : x # <<>>)

RECURSIVE CommonPrefixLen(_, _)
CommonPrefixLen(a, b) ==
    IF a = <<>> \/ b = <<>> \/ Head(a) # Head(b) THEN 0
    ELSE 1 + CommonPrefixLen(Tail(a), Tail(b))

\* os.path.relpath(path, start) for paths below the working directory
RelPath(path, start) ==
    LET pl == Components(path)
        sl == Components(start)
        i == CommonPrefixLen(sl, pl)
        ups == [k \in 1..(Len(sl) - i) |-> <<".", ".">>]
        rel == ups \o SubSeq(pl, i + 1, Len(pl))
    IN IF rel = <<>> THEN <<".">> ELSE JoinWith(rel, SLASH)

\* ----------------------------------------------------------- repo_structure_lib
rel_dir_to_map_dir(rel_dir) ==
    IF rel_dir = <<>> \/ rel_dir = <<SLASH>> THEN <<SLASH>>
    ELSE LET r1 == IF ~StartsWith(rel_dir, SLASH) THEN <<SLASH>> \o rel_dir ELSE rel_dir
             r2 == IF ~EndsWith(r1, SLASH) THEN r1 \o <<SLASH>> ELSE r1
         IN r2

map_dir_to_rel_dir(map_dir) ==
    IF map_dir = <<>> \/ map_dir = <<SLASH>> THEN <<>>
    ELSE SubSeq(map_dir, 2, Len(map_dir) - 1)

\* ------------------------------------------------------------------ regex
RECURSIVE PrefixMatch(_, _)
\* faulty variant, re.match: the pattern matches a prefix of the name
PrefixMatch(p, s) ==
    IF p = <<>> THEN TRUE
    ELSE IF Head(p) \in {STAR, GROUP}
         THEN \E k \in 0..Len(s) : PrefixMatch(Tail(p), SubSeq(s, k + 1, Len(s)))
         ELSE s # <<>> /\ Head(s) = Head(p) /\ PrefixMatch(Tail(p), Tail(s))

RECURSIVE FullMatch(_, _)
\* re.Pattern.fullmatch: the pattern matches the whole name
FullMatch(p, s) ==
    IF p = <<>> THEN s = <<>>
    ELSE IF Head(p) \in {STAR, GROUP}
         THEN \E k \in 0..Len(s) : FullMatch(Tail(p), SubSeq(s, k + 1, Len(s)))
         ELSE s # <<>> /\ Head(s) = Head(p) /\ FullMatch(Tail(p), Tail(s))

\* ------------------------------------------------------------------ dicts
\* A Python dict is a sequence of [k, v] pairs in insertion order.
DictKeys(d) == {d[i].k : i \in 1..Len(d)}
DictHas(d, key) == key \in DictKeys(d)
DictGet(d, key) == d[CHOOSE i \in 1..Len(d) : d[i].k = key].v
\* d[key] = val
DictSet(d, key, val) ==
    IF DictHas(d, key)
    THEN [i \in 1..Len(d) |-> IF d[i].k = key THEN [k |-> key, v |-> val] ELSE d[i]]
    ELSE Append(d, [k |-> key, v |-> val])
Has(rec, field) == field \in DOMAIN rec

\* ------------------------------------------------------ repo_structure_config
BUILTIN_DIRECTORY_RULES == {<<"i", "g", "n", "o", "r", "e">>}

_get_pattern(entry) ==
    IF Has(entry, "p") THEN entry.p
    ELSE IF Has(entry, "require") THEN entry.require
    ELSE IF Has(entry, "allow") THEN entry.allow
    ELSE entry.forbid

_get_is_required(entry) ==
    IF Has(entry, "required") THEN entry.required
    ELSE IF Has(entry, "require") THEN TRUE
    ELSE IF Has(entry, "allow") THEN FALSE
    ELSE IF Has(entry, "forbid") THEN FALSE
    ELSE TRUE

\* The identity of a RepoEntry object: the place of the Configuration that holds it
\* (rule name, index in the rule's list, then indices through if_exists lists), or
\* NewObject for an object no Configuration holds.
NewObject == [rule |-> <<>>, at |-> <<>>]

RECURSIVE _parse_entry_to_repo_entry(_)
_parse_entry_to_repo_entry(entry) ==
    LET if_exists == IF Has(entry, "if_exists") THEN entry.if_exists ELSE <<>>
        entry_pattern == _get_pattern(entry)
        is_dir == EndsWith(entry_pattern, SLASH)
        compiled_pattern == IF is_dir
                            THEN SubSeq(entry_pattern, 1, Len(entry_pattern) - 1)
                            ELSE entry_pattern
    IN [path |-> compiled_pattern,
        is_dir |-> is_dir,
        is_required |-> _get_is_required(entry),
        is_forbidden |-> Has(entry, "forbid"),
        use_rule |-> IF Has(entry, "use_rule") THEN entry.use_rule ELSE <<>>,
        if_exists |-> [i \in 1..Len(if_exists) |->
                          _parse_entry_to_repo_entry(if_exists[i])],
        count |-> 0,
        id |-> NewObject]

RECURSIVE Stored(_, _, _)
\* rules[rule] = entries: the entry objects, nested ones included, are from now on
\* the ones the Configuration holds
Stored(entries, rule, at) ==
    [j \in 1..Len(entries) |->
        [entries[j] EXCEPT !.id = [rule |-> rule, at |-> Append(at, j)],
                           !.if_exists = Stored(@, rule, Append(at, j))]]

\* structure_rules_yaml: dict rule name -> list of yaml entries
_build_rules(structure_rules_yaml) ==
    [i \in 1..Len(structure_rules_yaml) |->
        [k |-> structure_rules_yaml[i].k,
         v |-> Stored([j \in 1..Len(structure_rules_yaml[i].v) |->
                          _parse_entry_to_repo_entry(structure_rules_yaml[i].v[j])],
                      structure_rules_yaml[i].k, <<>>)]]

_validate_use_rule_not_dangling(rules) ==
    \A i \in 1..Len(rules) : \A j \in 1..Len(rules[i].v) :
        LET entry == rules[i].v[j]
        IN ~(entry.use_rule # <<>> /\ ~DictHas(rules, entry.use_rule))

_validate_use_rule_only_recursive(rules) ==
    \A i \in 1..Len(rules) : \A j \in 1..Len(rules[i].v) :
        LET entry == rules[i].v[j]
        IN ~(entry.use_rule # <<>> /\ entry.use_rule # rules[i].k)

\* [error, rules]: the structure rule map, or the UseRuleError raised
_parse_structure_rules(structure_rules_yaml) ==
    LET rules == _build_rules(structure_rules_yaml)
    IN IF ~_validate_use_rule_not_dangling(rules) \/ ~_validate_use_rule_only_recursive(rules)
       THEN [error |-> "UseRuleError", rules |-> <<>>]
       ELSE [error |-> "", rules |-> rules]

\* directory_map_yaml: dict directory -> list of {use_rule: name} (or use_template) maps
_parse_directory_map(directory_map_yaml) ==
    LET _parse_use_rule(value) ==
            LET picked == SelectSeq(value, LAMBDA r : DOMAIN r = {"use_rule"})
            IN [i \in 1..Len(picked) |-> picked[i].use_rule]
        nonempty == SelectSeq(directory_map_yaml, LAMBDA kv : Len(kv.v) > 0)
    IN [i \in 1..Len(nonempty) |->
           [k |-> nonempty[i].k, v |-> _parse_use_rule(nonempty[i].v)]]

\* faulty variant: the rule names of the directory map are not validated
ValidateNoRuleName(structure_rules, directory_map) == TRUE

_validate_directory_map_use_rules(structure_rules, directory_map) ==
    \A i \in 1..Len(directory_map) : \A j \in 1..Len(directory_map[i].v) :
        LET r == directory_map[i].v[j]
        IN DictHas(structure_rules, r) \/ r \in BUILTIN_DIRECTORY_RULES

_get_pattern_key(entry) ==
    IF Has(entry, "p") THEN "p"
    ELSE IF Has(entry, "require") THEN "require"
    ELSE IF Has(entry, "allow") THEN "allow"
    ELSE "forbid"

RECURSIVE StrReplace(_, _, _)
\* s.replace(old, new) for a non-empty old: the occurrences from the left, not overlapping
StrReplace(s, old, new) ==
    IF Len(s) < Len(old) THEN s
    ELSE IF SubSeq(s, 1, Len(old)) = old
         THEN new \o StrReplace(SubSeq(s, Len(old) + 1, Len(s)), old, new)
         ELSE <<Head(s)>> \o StrReplace(Tail(s), old, new)

\* f"{{{{{expansion_key}}}}}"
Placeholder(expansion_key) == <<"{", "{">> \o expansion_key \o <<"}", "}">>

_expand_entry(entry, expansion_key, expansion_var) ==
    LET k == _get_pattern_key(entry)
    IN [entry EXCEPT ![k] = StrReplace(@, Placeholder(expansion_key), expansion_var)]

\* faulty variant: the entries nested in if_exists keep their placeholders
ExpandTopLevelOnly(template_yaml, expansion_key, expansion_var) ==
    [j \in 1..Len(template_yaml) |->
        _expand_entry(template_yaml[j], expansion_key, expansion_var)]

RECURSIVE _expand_template_entry(_, _, _)
_expand_template_entry(template_yaml, expansion_key, expansion_var) ==
    [j \in 1..Len(template_yaml) |->
        LET entry == _expand_entry(template_yaml[j], expansion_key, expansion_var)
        IN IF Has(entry, "if_exists")
           THEN [entry EXCEPT !.if_exists =
                    _expand_template_entry(@, expansion_key, expansion_var)]
           ELSE entry]

RECURSIVE _max_values_length(_)
_max_values_length(expansion_map) ==
    IF expansion_map = <<>> THEN 0
    ELSE LET rest == _max_values_length(Tail(expansion_map))
             here == Len(Head(expansion_map).v)
         IN IF here > rest THEN here ELSE rest

RECURSIVE ExpandKeys(_, _, _)
\* the loop over expansion_map.items() for the copy with index i (from 0)
ExpandKeys(entries, expansion_map, i) ==
    IF expansion_map = <<>> THEN entries
    ELSE LET expansion_key == Head(expansion_map).k
             expansion_vars == Head(expansion_map).v
             index == i % Len(expansion_vars)
         IN ExpandKeys(_expand_template_entry(entries, expansion_key,
                                              expansion_vars[index + 1]),
                       Tail(expansion_map), i)

\* [error, yaml]: the entries of the generated rule, or the exception of the first copy
_expand_template(dir_map_yaml, templates_yaml) ==
    LET expansion_map == dir_map_yaml.parameters
        n == _max_values_length(expansion_map)
    IN IF n = 0 THEN [error |-> "", yaml |-> <<>>]
       ELSE IF ~DictHas(templates_yaml, dir_map_yaml.use_template)
       THEN [error |-> "TemplateError", yaml |-> <<>>]
       ELSE IF \E j \in 1..Len(expansion_map) : Len(expansion_map[j].v) = 0
       THEN [error |-> "ZeroDivisionError", yaml |-> <<>>]
       ELSE [error |-> "",
             yaml |-> Concat([c \in 1..n |->
                         ExpandKeys(DictGet(templates_yaml, dir_map_yaml.use_template),
                                    expansion_map, c - 1)])]

TEMPLATE_RULE_PREFIX == "__template_rule_"

\* f"__template_rule_{map_dir_to_rel_dir(directory)}_{dir_map_yaml['use_template']}"
TemplateRuleName(directory, use_template) ==
    <<TEMPLATE_RULE_PREFIX>> \o map_dir_to_rel_dir(directory) \o <<"_">> \o use_template

\* cfg: [error, structure_rules, directory_map], updated in place by the code
_parse_use_template(dir_map_yaml, directory, templates_yaml, cfg) ==
    IF ~Has(dir_map_yaml, "use_template") THEN cfg
    ELSE LET expanded == _expand_template(dir_map_yaml, templates_yaml)
             structure_rule_list ==
                 [j \in 1..Len(expanded.yaml) |-> _parse_entry_to_repo_entry(expanded.yaml[j])]
             template_rule_name == TemplateRuleName(directory, dir_map_yaml.use_template)
         IN IF expanded.error # "" THEN [cfg EXCEPT !.error = expanded.error]
            ELSE [cfg EXCEPT
                     !.structure_rules =
                         DictSet(@, template_rule_name,
                                 Stored(structure_rule_list, template_rule_name, <<>>)),
                     !.directory_map =
                         DictSet(@, directory,
                                 Append(DictGet(cfg.directory_map, directory),
                                        template_rule_name))]

RECURSIVE ParseUseMaps(_, _, _, _)
\* the loop over the entries of one directory; the first exception ends it
ParseUseMaps(value, directory, templates_yaml, cfg) ==
    IF value = <<>> \/ cfg.error # "" THEN cfg
    ELSE ParseUseMaps(Tail(value), directory, templates_yaml,
                      _parse_use_template(Head(value), directory, templates_yaml, cfg))

RECURSIVE _parse_templates_to_configuration(_, _, _)
_parse_templates_to_configuration(templates_yaml, directory_map_yaml, cfg) ==
    IF directory_map_yaml = <<>> \/ cfg.error # "" THEN cfg
    ELSE _parse_templates_to_configuration(
             templates_yaml, Tail(directory_map_yaml),
             ParseUseMaps(Head(directory_map_yaml).v, Head(directory_map_yaml).k,
                          templates_yaml, cfg))

\* Configuration.__init__ for a configuration given as a YAML string
Configuration(yaml_dict) ==
    LET parsed == _parse_structure_rules(yaml_dict.structure_rules)
        data == [error |-> parsed.error,
                 structure_rules |-> parsed.rules,
                 directory_map |-> _parse_directory_map(yaml_dict.directory_map)]
        templates_yaml == IF Has(yaml_dict, "templates") THEN yaml_dict.templates ELSE <<>>
        expanded == _parse_templates_to_configuration(templates_yaml,
                                                      yaml_dict.directory_map, data)
        error == IF expanded.error # "" THEN expanded.error
                 ELSE IF ~_validate_directory_map_use_rules(expanded.structure_rules,
                                                            expanded.directory_map)
                      THEN "UseRuleError"
                      ELSE ""
    IN [error |-> error,
        structure_rules |-> expanded.structure_rules,
        directory_map |-> expanded.directory_map,
        configuration_file_name |-> <<>>]

\* Configuration.__init__ for a configuration file: the file name must not be the
\* name of a structure rule, and is kept as configuration_file_name
ConfigurationFromFile(config_file, yaml_dict) ==
    LET c == Configuration(yaml_dict)
    IN IF c.error # "" THEN c
       ELSE IF DictHas(c.structure_rules, config_file)
       THEN [c EXCEPT !.error = "ConfigurationParseError"]
       ELSE [c EXCEPT !.configuration_file_name = config_file]

\* ---------------------------------------------------- repo_structure_enforcement
\* faulty variant: the backlog holds the entry objects of the Configuration themselves
NoCopy(e) == e

\* dataclasses.replace(e, path=re.compile(e.path.pattern)): a new entry object with
\* the same field values (count included) and an equal compiled pattern; its
\* if_exists is the list object of e, holding the same nested entry objects
Replace(e) == [e EXCEPT !.path = e.path, !.id = NewObject]

_build_active_entry_backlog(active_use_rules, structure_rules) ==
    Concat([i \in 1..Len(active_use_rules) |->
               LET rule == DictGet(structure_rules, active_use_rules[i])
               IN [j \in 1..Len(rule) |-> Replace(rule[j])]])

\* v.path.fullmatch(entry_path) and v.is_dir == is_dir
EntryMatches(v, entry_path, is_dir) == FullMatch(v.path, entry_path) /\ v.is_dir = is_dir

\* faulty variant: the loop over the backlog ends at the first match
IndicesUntilFirst(backlog, entry_path, is_dir, i) ==
    LET found == {j \in i..Len(backlog) : EntryMatches(backlog[j], entry_path, is_dir)}
    IN IF found = {} THEN <<>>
       ELSE <<CHOOSE j \in found : \A other \in found : j <= other>>

RECURSIVE IndicesFrom(_, _, _, _)
IndicesFrom(backlog, entry_path, is_dir, i) ==
    IF i > Len(backlog) THEN <<>>
    ELSE (IF EntryMatches(backlog[i], entry_path, is_dir) THEN <<i>> ELSE <<>>)
         \o IndicesFrom(backlog, entry_path, is_dir, i + 1)

\* faulty variant: the search stops at the first match
FirstIndexOnly(backlog, entry_path, is_dir) ==
    LET all == IndicesFrom(backlog, entry_path, is_dir, 1)
    IN [error |-> IF all = <<>> THEN "UnspecifiedEntryError" ELSE "",
        indices |-> IF all = <<>> THEN <<>> ELSE <<all[1]>>]

\* every index of the backlog that matches, or UnspecifiedEntryError when none does
_get_matching_item_index(backlog, entry_path, is_dir) ==
    LET result == IndicesFrom(backlog, entry_path, is_dir, 1)
    IN [error |-> IF Len(result) # 0 THEN "" ELSE "UnspecifiedEntryError",
        indices |-> result]

\* the matcher the full scanner imports: a Forbidden entry among the matches
\* raises ForbiddenEntryError
_get_matching_item_index_lib(backlog, entry_path, is_dir) ==
    LET m == _get_matching_item_index(backlog, entry_path, is_dir)
    IN IF \E i \in 1..Len(m.indices) : backlog[m.indices[i]].is_forbidden
       THEN [error |-> "ForbiddenEntryError", indices |-> <<>>]
       ELSE m

\* faulty variant: the Required entries of the rule are not activated below the matched directory
UseRuleWithoutRequired(use_rule, structure_rules) ==
    IF use_rule # <<>>
    THEN SelectSeq(_build_active_entry_backlog(<<use_rule>>, structure_rules),
                   LAMBDA e : ~e.is_required)
    ELSE <<>>

\* the entries a matched entry's use_rule contributes to the new backlog
_handle_use_rule(use_rule, structure_rules) ==
    IF use_rule # <<>>
    THEN _build_active_entry_backlog(<<use_rule>>, structure_rules)
    ELSE <<>>

\* faulty variant: the if_exists entry objects themselves are appended
IfExistsNotCopied(backlog_entry) == backlog_entry.if_exists

\* the entries a matched entry's if_exists contributes to the new backlog
_handle_if_exists(backlog_entry) ==
    [i \in 1..Len(backlog_entry.if_exists) |-> Replace(backlog_entry.if_exists[i])]

GITIGNORE_NAME == <<".", "g", "i", "t", "i", "g", "n", "o", "r", "e">>
GIT_NAME == <<".", "g", "i", "t">>

\* faulty variant: hidden entries are examined although include_hidden is off
SkipEntryHiddenToo(entry, directory_map, configuration_file_name, git_ignore, fl) ==
    \/ (~fl.follow_symlinks /\ entry.is_symlink)
    \/ (entry.path = GITIGNORE_NAME /\ ~entry.is_dir)
    \/ (entry.path = GIT_NAME /\ entry.is_dir)
    \/ entry.path \in git_ignore
    \/ (entry.is_dir
        /\ DictHas(directory_map, rel_dir_to_map_dir(PathJoin(entry.rel_dir, entry.path))))
    \/ entry.path = configuration_file_name

\* faulty variant: a directory that has its own mapping is not skipped
SkipEntryMappedToo(entry, directory_map, configuration_file_name, git_ignore, fl) ==
    \/ (~fl.follow_symlinks /\ entry.is_symlink)
    \/ (~fl.include_hidden /\ StartsWith(entry.path, "."))
    \/ (entry.path = GITIGNORE_NAME /\ ~entry.is_dir)
    \/ (entry.path = GIT_NAME /\ entry.is_dir)
    \/ entry.path \in git_ignore
    \/ entry.path = configuration_file_name

_skip_entry(entry, directory_map, configuration_file_name, git_ignore, fl) ==
    \/ (~fl.follow_symlinks /\ entry.is_symlink)
    \/ (~fl.include_hidden /\ StartsWith(entry.path, "."))
    \/ (entry.path = GITIGNORE_NAME /\ ~entry.is_dir)
    \/ (entry.path = GIT_NAME /\ entry.is_dir)
    \/ entry.path \in git_ignore
    \/ (entry.is_dir
        /\ DictHas(directory_map, rel_dir_to_map_dir(PathJoin(entry.rel_dir, entry.path))))
    \/ entry.path = configuration_file_name

\* the rule names that contribute entries to a backlog: a builtin rule has none
ActiveRules(use_rules) ==
    SelectSeq(use_rules, LAMBDA rule : rule \notin BUILTIN_DIRECTORY_RULES)

_map_dir_to_entry_backlog(directory_map, structure_rules, map_dir) ==
    LET use_rules == DictGet(directory_map, rel_dir_to_map_dir(map_dir))
    IN _build_active_entry_backlog(ActiveRules(use_rules), structure_rules)

\* ------------------------------------------------------- repo_structure_full_scan
\* faulty variant: the count of the entry is not looked at
MissingRequiredAnyCount(entry_backlog) ==
    SelectSeq(entry_backlog, LAMBDA entry : entry.is_required)

\* the Required entries of a backlog that were never matched, in backlog order
MissingRequired(entry_backlog) ==
    SelectSeq(entry_backlog, LAMBDA entry : entry.is_required /\ entry.count = 0)

\* [error, files, dirs]: the MissingRequiredEntriesError raised, if any
_fail_if_required_entries_missing(entry_backlog) ==
    LET missing_required == MissingRequired(entry_backlog)
        files == SelectSeq(missing_required, LAMBDA f : ~f.is_dir)
        dirs == SelectSeq(missing_required, LAMBDA d : d.is_dir)
    IN [error |-> IF missing_required # <<>> THEN "MissingRequiredEntriesError" ELSE "",
        files |-> [i \in 1..Len(files) |-> files[i].path],
        dirs |-> [i \in 1..Len(dirs) |-> dirs[i].path]]

\* ------------------------------------------------------------- inputs: trees
NameA == <<"a">>
NameAB == <<"a", "b">>
NameD == <<"d">>
FileNames == {NameA, NameAB}

RECURSIVE Chain(_)
\* the directory d/d/.../d of depth k, as a relative path
Chain(k) == IF k = 0 THEN <<>> ELSE PathJoin(Chain(k - 1), NameD)

FsEntry(rel_dir, name, is_dir) ==
    [path |-> name, rel_dir |-> rel_dir, is_dir |-> is_dir, is_symlink |-> FALSE]

Universe ==
    {FsEntry(Chain(k), n, FALSE) : k \in 0..(MaxDepth - 1), n \in FileNames}
    \cup {FsEntry(Chain(k), NameD, TRUE) : k \in 0..(MaxDepth - 1)}
    \cup {FsEntry(<<>>, NameD, FALSE)}

EntryPath(e) == PathJoin(e.rel_dir, e.path)

\* a tree is a set of entries: no path twice, every parent directory present
IsTree(t) ==
    /\ \A e1, e2 \in t : EntryPath(e1) = EntryPath(e2) => e1 = e2
    /\ \A e \in t : e.rel_dir # <<>> =>
           \E par \in t : par.is_dir /\ EntryPath(par) = e.rel_dir

Trees == {t \in SUBSET Universe : Cardinality(t) <= MaxEntries /\ IsTree(t)}

\* os.scandir(os.path.join(repo_root, rel_dir))
ScanDir(t, rel_dir) == {e \in t : e.rel_dir = rel_dir}

\* ----------------------------------------------------- inputs: configurations
RuleR == <<"r">>
RuleS == <<"s">>
MapRoot == <<SLASH>>
MapD == <<SLASH, "d", SLASH>>

\* the entries the structure rule r is drawn from, in YAML form
PoolR ==
    << [require |-> <<"a">>],
       [allow |-> <<"a", STAR>>],
       [forbid |-> <<"a", "b">>],
       [allow |-> <<"d", SLASH>>, use_rule |-> RuleR],
       [require |-> <<STAR, SLASH>>, if_exists |-> <<[require |-> <<"a", "b">>]>>],
       [allow |-> <<"d", SLASH>>, use_rule |-> RuleR,
        if_exists |-> <<[allow |-> <<"a", "b">>]>>] >>

YamlRuleS == << [require |-> <<"a", STAR>>] >>

RECURSIVE Pick(_, _, _)
\* the subsequence of seq at the indices in S
Pick(seq, S, i) ==
    IF i > Len(seq) THEN <<>>
    ELSE (IF i \in S THEN <<seq[i]>> ELSE <<>>) \o Pick(seq, S, i + 1)

YamlRules ==
    {Pick(PoolR, S, 1) : S \in {T \in SUBSET (1..Len(PoolR)) : Cardinality(T) <= MaxRuleLen}}

UseRule(name) == [use_rule |-> name]

YamlDirectoryMaps ==
    { << [k |-> MapRoot, v |-> <<UseRule(RuleR)>>] >>,
      << [k |-> MapRoot, v |-> <<UseRule(RuleR)>>], [k |-> MapD, v |-> <<UseRule(RuleR)>>] >>,
      << [k |-> MapD, v |-> <<UseRule(RuleS)>>], [k |-> MapRoot, v |-> <<UseRule(RuleS), UseRule(RuleR)>>] >>,
      << [k |-> MapD, v |-> <<UseRule(RuleR)>>] >> }

YamlDicts ==
    { [structure_rules |-> << [k |-> RuleR, v |-> r], [k |-> RuleS, v |-> YamlRuleS] >>,
       directory_map |-> m] : r \in YamlRules, m \in YamlDirectoryMaps }

\* ------------------------------------------- inputs: configurations to compile
RuleX == <<"x">>
TemplateT == <<"t">>
TemplateU == <<"u">>
TemplateV == <<"v">>
ParamC == <<"c">>
ParamE == <<"e">>
IGNORE == <<"i", "g", "n", "o", "r", "e">>

\* the entries the structure rule r of a configuration to compile is drawn from
CompilePoolR ==
    PoolR \o
    << [p |-> <<"a">>, use_rule |-> RuleR],
       [allow |-> <<"d", SLASH>>, use_rule |-> RuleS],
       [allow |-> <<"d", SLASH>>, use_rule |-> RuleX],
       [require |-> <<"d", SLASH>>,
        if_exists |-> <<[allow |-> <<"d", SLASH>>, use_rule |-> RuleX]>>],
       [forbid |-> <<"a">>, required |-> TRUE],
       [p |-> <<"a">>, required |-> FALSE] >>

CompileYamlRules ==
    {Pick(CompilePoolR, S, 1) :
        S \in {T \in SUBSET (1..Len(CompilePoolR)) : Cardinality(T) <= MaxRuleLen}}

\* a template pattern is written as pieces: literal text or the placeholder of a key
Lit(chars) == [lit |-> chars]
Key(name) == [key |-> name]
PiecesT ==
    << [require |-> <<Key(ParamC), Lit(<<SLASH>>)>>,
        if_exists |-> << [require |-> <<Key(ParamC), Lit(<<"_">>), Key(ParamE)>>] >>],
       [allow |-> <<Key(ParamE), Key(ParamC), Lit(<<STAR>>)>>] >>
PiecesV ==
    << [allow |-> <<Key(ParamC), Lit(<<SLASH>>)>>, use_rule |-> RuleX] >>

\* the text of a piece in the template: "{{key}}" for a placeholder
PieceSource(piece) == IF Has(piece, "key") THEN Placeholder(piece.key) ELSE piece.lit

RECURSIVE TemplateSource(_)
\* the YAML entries of a template written as pieces
TemplateSource(entries) ==
    [j \in 1..Len(entries) |->
        LET k == _get_pattern_key(entries[j])
            text == [entries[j] EXCEPT
                        ![k] = Concat([i \in 1..Len(@) |-> PieceSource(@[i])])]
        IN IF Has(text, "if_exists")
           THEN [text EXCEPT !.if_exists = TemplateSource(@)]
           ELSE text]

YamlTemplates ==
    << [k |-> TemplateT, v |-> TemplateSource(PiecesT)],
       [k |-> TemplateV, v |-> TemplateSource(PiecesV)] >>

RECURSIVE Rep(_, _)
\* the character ch, n times
Rep(ch, n) == IF n = 0 THEN <<>> ELSE <<ch>> \o Rep(ch, n - 1)

\* the value lists of the parameters c and e: n distinct values each
ValuesOf(ch, n) == [i \in 1..n |-> Rep(ch, i)]

ParameterMaps ==
    {<<>>}
    \cup {<< [k |-> ParamC, v |-> ValuesOf("x", kc)] >> : kc \in 0..MaxValues}
    \cup {<< [k |-> ParamC, v |-> ValuesOf("x", kc)], [k |-> ParamE, v |-> ValuesOf("1", ke)] >> :
             kc \in 0..MaxValues, ke \in 0..MaxValues}

UseTemplate(name, parameters) == [use_template |-> name, parameters |-> parameters]

CompileDirectoryMaps ==
    { << [k |-> MapRoot, v |-> <<UseRule(RuleR)>>] >>,
      << [k |-> MapRoot, v |-> <<UseRule(RuleX)>>] >>,
      << [k |-> MapRoot, v |-> <<UseRule(RuleR)>>], [k |-> MapD, v |-> <<UseRule(IGNORE)>>] >> }
    \cup {<< [k |-> MapRoot, v |-> <<UseTemplate(TemplateT, P)>>] >> : P \in ParameterMaps}
    \cup {<< [k |-> MapRoot, v |-> <<UseRule(RuleR), UseTemplate(TemplateU, P)>>] >> :
             P \in ParameterMaps}
    \cup {<< [k |-> MapRoot, v |-> <<UseRule(RuleR)>>],
             [k |-> MapD, v |-> <<UseTemplate(TemplateT, P)>>] >> : P \in ParameterMaps}
    \cup {<< [k |-> MapRoot, v |-> <<UseTemplate(TemplateV, P)>>] >> : P \in ParameterMaps}

\* the parsed YAML handed to Configuration: with or without a templates section
CompileYamlDict(r, m, with_templates) ==
    LET structure_rules == << [k |-> RuleR, v |-> r], [k |-> RuleS, v |-> YamlRuleS] >>
    IN IF with_templates
       THEN [structure_rules |-> structure_rules, templates |-> YamlTemplates,
             directory_map |-> m]
       ELSE [structure_rules |-> structure_rules, directory_map |-> m]

Flags == [follow_symlinks |-> FALSE, include_hidden |-> TRUE, verbose |-> FALSE, jobs |-> 1]

\* ------------------------------------------------------- repo_structure_diff_scan
None == [code |-> "", path |-> <<>>]
ScanIssue(code, path) == [code |-> code, path |-> path]

\* the (rel_dir, part, is_directory) triples of a path, outermost first
_incremental_path_split(path_to_split) ==
    LET parts == Split(Strip(path_to_split, SLASH), SLASH)
    IN [i \in 1..Len(parts) |->
           [rel_dir |-> JoinWith(SubSeq(parts, 1, i - 1), SLASH),
            name |-> parts[i],
            is_dir |-> i < Len(parts)]]

\* the matcher of the diff scanner: the earliest matching entry, or the issue found
_get_matching_item_index_safe(backlog, entry_path, is_dir) ==
    LET m == _get_matching_item_index_lib(backlog, entry_path, is_dir)
    IN IF m.error = "ForbiddenEntryError"
       THEN [success |-> FALSE, index |-> 0, issue |-> ScanIssue("forbidden_entry", entry_path)]
       ELSE IF m.error = "UnspecifiedEntryError"
       THEN [success |-> FALSE, index |-> 0, issue |-> ScanIssue("unspecified_entry", entry_path)]
       ELSE [success |-> TRUE, index |-> m.indices[1], issue |-> None]

ConcatBacklog(backlog_match, structure_rules) ==
    _handle_use_rule(backlog_match.use_rule, structure_rules)
    \o _handle_if_exists(backlog_match)

\* _handle_use_rule(...) or _handle_if_exists(...): the second list only when the
\* first is empty
NextBacklog(backlog_match, structure_rules) ==
    LET u == _handle_use_rule(backlog_match.use_rule, structure_rules)
    IN IF u # <<>> THEN u ELSE _handle_if_exists(backlog_match)

RECURSIVE CheckSegments(_, _, _, _)
\* the loop of _check_path_in_backlog over the remaining segments
CheckSegments(backlog, cfg, fl, segs) ==
    IF segs = <<>> THEN None
    ELSE LET seg == Head(segs)
             entry == [path |-> seg.name, rel_dir |-> seg.rel_dir,
                       is_dir |-> seg.is_dir, is_symlink |-> FALSE]
             match_result == _get_matching_item_index_safe(backlog, seg.name, seg.is_dir)
         IN IF _skip_entry(entry, cfg.directory_map, cfg.configuration_file_name, {}, fl)
            THEN None
            ELSE IF ~match_result.success THEN match_result.issue
            ELSE IF seg.is_dir
            THEN CheckSegments(NextBacklog(backlog[match_result.index], cfg.structure_rules),
                               cfg, fl, Tail(segs))
            ELSE CheckSegments(backlog, cfg, fl, Tail(segs))

\* faulty variant: the Required entries of the first backlog are checked as in a full scan
CheckSegmentsThenRequired(backlog, cfg, fl, path) ==
    LET issue == CheckSegments(backlog, cfg, fl, _incremental_path_split(path))
    IN IF issue = None /\ _fail_if_required_entries_missing(backlog).error # ""
       THEN ScanIssue("missing_required", path)
       ELSE issue

_check_path_in_backlog(backlog, cfg, fl, path) ==
    CheckSegments(backlog, cfg, fl, _incremental_path_split(path))

RECURSIVE LastMapDir(_, _, _)
LastMapDir(directory_map, segs, map_dir) ==
    IF segs = <<>> THEN map_dir
    ELSE LET seg == Head(segs)
             map_sub_dir == rel_dir_to_map_dir(PathJoin(seg.rel_dir, seg.name))
         IN LastMapDir(directory_map, Tail(segs),
                       IF seg.is_dir /\ DictHas(directory_map, map_sub_dir)
                       THEN map_sub_dir ELSE map_dir)

_get_corresponding_map_dir(cfg, path) ==
    LastMapDir(cfg.directory_map, _incremental_path_split(path), <<SLASH>>)

\* faulty variant: the issue keeps the path the matcher gave it
KeepIssuePath(issue, path) == issue

\* issue.path = path
SetIssuePath(issue, path) == [issue EXCEPT !.path = path]

\* [error, issue]: what check_path raises or returns; the lookup
\* directory_map[map_dir] of a key that is absent raises KeyError
check_path(cfg, path, fl) ==
    LET map_dir == _get_corresponding_map_dir(cfg, path)
    IN IF ~DictHas(cfg.directory_map, map_dir)
       THEN [error |-> "KeyError", issue |-> None]
       ELSE LET backlog == _map_dir_to_entry_backlog(cfg.directory_map, cfg.structure_rules,
                                                     map_dir_to_rel_dir(map_dir))
                rel_path == RelPath(path, map_dir_to_rel_dir(map_dir))
                issue == _check_path_in_backlog(backlog, cfg, fl, rel_path)
            IN IF backlog = <<>> THEN [error |-> "", issue |-> None]
               ELSE IF issue # None
               THEN [error |-> "", issue |-> SetIssuePath(issue, path)]
               ELSE [error |-> "", issue |-> issue]

RECURSIVE check_paths(_, _, _)
\* [error, issues]: the issues of the paths, in the order of the paths
check_paths(cfg, paths, fl) ==
    IF paths = <<>> THEN [error |-> "", issues |-> <<>>]
    ELSE LET first == check_path(cfg, Head(paths), fl)
             others == check_paths(cfg, Tail(paths), fl)
         IN IF first.error # "" THEN [error |-> first.error, issues |-> <<>>]
            ELSE IF others.error # "" THEN others
            ELSE [error |-> "",
                  issues |-> (IF first.issue # None THEN <<first.issue>> ELSE <<>>)
                             \o others.issues]

\* the paths handed to the diff scanner
CheckedPaths == {EntryPath(e) : e \in Universe}

\* ------------------------------------------------------------------ state
VARIABLES
    yaml_dict,   \* the parsed YAML the Configuration is constructed from
    config,      \* the compiled Configuration
    tree,        \* the repository tree below repo_root
    flags,       \* the Flags of the scan
    git_ignore,  \* the names the .gitignore predicate of repo_root matches
    pc,          \* "idle", "scan" or "done": the position of the full scan
    map_todo,    \* the directory_map keys assert_full_repository_structure has yet to process
    stack,       \* the active calls of _fail_if_invalid_repo_structure_recursive
    error,       \* the exception the full scan raised, kind "" while there is none
    checked,     \* the last call of check_path: its path and what it returned
    batch,       \* the last call of check_paths: its paths and what it returned
    workers,     \* the tasks submitted to the process pool, in the order of the futures
    joined,      \* the outcome of the scan with jobs > 1
    history      \* for each full scan that ended before the current one: did it pass

vars == <<yaml_dict, config, tree, flags, git_ignore, pc, map_todo, stack, error, checked,
          batch, workers, joined, history>>
scan_vars == <<pc, map_todo, stack, error>>

NoEntry == [path |-> <<>>, rel_dir |-> <<>>, is_dir |-> FALSE, is_symlink |-> FALSE]
NoCheck == [called |-> FALSE, path |-> <<>>, error |-> "", issue |-> None]
NoBatch == [called |-> FALSE, paths |-> <<>>, error |-> "", issues |-> <<>>]
NoError == [kind |-> "", path |-> <<>>, files |-> <<>>, dirs |-> <<>>]
NoJoin == [called |-> FALSE, done |-> FALSE, error |-> NoError]

Raise(kind, path) == [kind |-> kind, path |-> path, files |-> <<>>, dirs |-> <<>>]

RECURSIVE Resolved(_, _, _, _)
\* [dir, links]: the directory the path names once every symbolic link on it is
\* followed to its target, and the number of links followed
Resolved(t, parts, dir, links) ==
    IF parts = <<>> THEN [dir |-> dir, links |-> links]
    ELSE LET next == PathJoin(dir, Head(parts))
             link == {e \in t : EntryPath(e) = next /\ Has(e, "target")}
             step == IF link = {} THEN [dir |-> next, links |-> links]
                     ELSE [dir |-> (CHOOSE e \in link : TRUE).target, links |-> links + 1]
         IN CHOOSE r \in {Resolved(t, rest, s.dir, s.links) :
                              s \in {step}, rest \in {Tail(parts)}} : TRUE

\* the entries of the directory the path leads to, seen below rel_dir
Relisted(t, rel_dir) ==
    UNION {{[e EXCEPT !.rel_dir = rel_dir] : e \in ScanDir(t, to.dir)} :
              to \in {Resolved(t, Components(rel_dir), <<>>, 0)}}

\* os.scandir(os.path.join(repo_root, rel_dir))
ListDir(t, rel_dir) ==
    IF \A e \in t : ~Has(e, "target") THEN ScanDir(t, rel_dir)
    ELSE UNION {Relisted(t, below) : below \in {rel_dir}}

\* the path cannot be resolved: too many levels of symbolic links
TooManyLinks(t, rel_dir) ==
    \E parts \in {Components(rel_dir)} : Resolved(t, parts, <<>>, 0).links > MaxLinks

\* faulty variant: the loop over the children does not move on after a skipped entry
RemainingAfterSkip(todo, e, skipped) == IF skipped THEN todo ELSE todo \ {e}

\* the children the loop over os.scandir has yet to yield once it has yielded e
Remaining(todo, e, skipped) == todo \ {e}

\* one call of _fail_if_invalid_repo_structure_recursive
Frame(rel_dir, backlog, t) ==
    [rel_dir |-> rel_dir,
     backlog |-> backlog,
     todo |-> ListDir(t, rel_dir),  \* the entries os.scandir has yet to yield
     entry |-> NoEntry,             \* the loop variable entry
     pending |-> <<>>]              \* the matched indices the inner loop has yet to visit

Top == stack[Len(stack)]
SetTop(f) == [stack EXCEPT ![Len(stack)] = f]

Init ==
    /\ tree \in Trees
    /\ yaml_dict \in YamlDicts
    /\ config = Configuration(yaml_dict)
    /\ config.error = ""
    /\ flags = Flags
    /\ git_ignore = {}
    /\ pc = "idle"
    /\ map_todo = <<>>
    /\ stack = <<>>
    /\ error = NoError
    /\ checked = NoCheck
    /\ batch = NoBatch
    /\ workers = <<>>
    /\ joined = NoJoin
    /\ history = <<>>

\* the Configuration object before its constructor has run
NotConstructed ==
    [error |-> "not constructed", structure_rules |-> <<>>, directory_map |-> <<>>,
     configuration_file_name |-> <<>>]

InitCompile ==
    /\ \E r \in CompileYamlRules, m \in CompileDirectoryMaps, with_templates \in BOOLEAN :
           yaml_dict = CompileYamlDict(r, m, with_templates)
    /\ config = NotConstructed
    /\ tree = {}
    /\ flags = Flags
    /\ git_ignore = {}
    /\ pc = "idle"
    /\ map_todo = <<>>
    /\ stack = <<>>
    /\ error = NoError
    /\ checked = NoCheck
    /\ batch = NoBatch
    /\ workers = <<>>
    /\ joined = NoJoin
    /\ history = <<>>

\* Configuration(yaml_string, True): config.error names the exception raised, if any
Construct ==
    /\ config = NotConstructed
    /\ config' = Configuration(yaml_dict)
    /\ UNCHANGED <<history, yaml_dict, tree, flags, git_ignore, scan_vars, checked, batch, workers, joined>>

NextCompile == Construct

SpecCompile == InitCompile /\ [][NextCompile]_vars

\* ------------------------------------------------ the full scan, step by step
IsDirectory(t, rel_dir) ==
    rel_dir = <<>> \/ \E e \in t : e.is_dir /\ EntryPath(e) = rel_dir

\* the path a full-scan error message names: f"'{entry.rel_dir}/{entry.path}'"
MessagePath(entry) == entry.rel_dir \o <<SLASH>> \o entry.path

\* faulty variant: counting a match forgets the matches counted before
IncrementLastOnly(backlog, indices) ==
    [i \in 1..Len(backlog) |->
        [backlog[i] EXCEPT !.count = IF \E j \in 1..Len(indices) : indices[j] = i
                                     THEN 1 ELSE 0]]

\* backlog[idx].count += 1 for every idx of indices
RECURSIVE Increment(_, _)
Increment(backlog, indices) ==
    IF indices = <<>> THEN backlog
    ELSE Increment([backlog EXCEPT ![Head(indices)].count = @ + 1], Tail(indices))

RECURSIVE CountAt(_, _)
\* count += 1 on the entry object at the place `at` of a rule's entries
CountAt(entries, at) ==
    IF Len(at) = 1 THEN [entries EXCEPT ![at[1]].count = @ + 1]
    ELSE [entries EXCEPT ![at[1]].if_exists = CountAt(@, Tail(at))]

RECURSIVE Counted(_, _, _)
\* what backlog[idx].count += 1, for every idx of indices, does to the Configuration:
\* nothing for a backlog entry that is an object of its own, the same increment for
\* one that is an entry object the Configuration holds
Counted(cfg, backlog, indices) ==
    IF indices = <<>> THEN cfg
    ELSE LET id == backlog[Head(indices)].id
             next == IF id = NewObject THEN cfg
                     ELSE [cfg EXCEPT !.structure_rules =
                              DictSet(@, id.rule, CountAt(DictGet(@, id.rule), id.at))]
         IN Counted(next, backlog, Tail(indices))

\* faulty variant: only an empty directory map is refused
NoMappingAtAll(directory_map) == directory_map = <<>>

\* "/" not in config.directory_map
RootMappingMissing(directory_map) == ~DictHas(directory_map, MapRoot)

\* faulty variant: the counts of the matches are incremented before the error is raised
MatchAndCountEager(backlog, e) ==
    LET m == _get_matching_item_index_lib(backlog, e.path, e.is_dir)
        counted == Increment(backlog, _get_matching_item_index(backlog, e.path, e.is_dir).indices)
        all == _get_matching_item_index(backlog, e.path, e.is_dir).indices
    IN IF m.error # ""
       THEN [error |-> m.error, backlog |-> counted, pending |-> <<>>, counted |-> all]
       ELSE IF e.is_dir
            THEN [error |-> "", backlog |-> backlog, pending |-> m.indices, counted |-> <<>>]
            ELSE [error |-> "", backlog |-> counted, pending |-> <<>>, counted |-> all]

\* the matcher's error re-raised before any count changes; else the matched indices:
\* counted at once for a file, left to the inner loop for a directory
MatchAndCount(backlog, e) ==
    LET m == _get_matching_item_index_lib(backlog, e.path, e.is_dir)
    IN IF m.error # ""
       THEN [error |-> m.error, backlog |-> backlog, pending |-> <<>>, counted |-> <<>>]
       ELSE IF e.is_dir
            THEN [error |-> "", backlog |-> backlog, pending |-> m.indices, counted |-> <<>>]
            ELSE [error |-> "", backlog |-> Increment(backlog, m.indices), pending |-> <<>>,
                  counted |-> m.indices]

\* assert_full_repository_structure up to its loop over the directory map
StartFullScan ==
    /\ pc = "idle"
    /\ IF RootMappingMissing(config.directory_map)
       THEN /\ pc' = "done"
            /\ error' = Raise("MissingMappingError", <<>>)
            /\ UNCHANGED map_todo
       ELSE /\ pc' = "scan"
            /\ map_todo' = [i \in 1..Len(config.directory_map) |-> config.directory_map[i].k]
            /\ UNCHANGED error
    /\ UNCHANGED <<history, yaml_dict, workers, joined, config, tree, flags, git_ignore, checked, batch, stack>>

\* _process_map_dir up to its call of the recursive scan, and that call's os.scandir
StartMapDir ==
    /\ pc = "scan"
    /\ stack = <<>>
    /\ map_todo # <<>>
    /\ LET map_dir == Head(map_todo)
           rel_dir == map_dir_to_rel_dir(map_dir)
           backlog == _map_dir_to_entry_backlog(config.directory_map,
                                                config.structure_rules, rel_dir)
       IN /\ map_todo' = Tail(map_todo)
          /\ IF IsDirectory(tree, rel_dir)
             THEN /\ stack' = <<Frame(rel_dir, backlog, tree)>>
                  /\ UNCHANGED <<pc, error>>
             ELSE /\ pc' = "done"
                  /\ error' = Raise(IF \E e \in tree : EntryPath(e) = rel_dir
                                    THEN "NotADirectoryError"
                                    ELSE "FileNotFoundError", rel_dir)
                  /\ UNCHANGED stack
    /\ UNCHANGED <<history, yaml_dict, workers, joined, config, tree, flags, git_ignore, checked, batch>>

\* one iteration of the loop over os.scandir, up to the inner loop of a directory
ScanEntry(e) ==
    /\ pc = "scan"
    /\ stack # <<>>
    /\ Top.pending = <<>>
    /\ e \in Top.todo
    /\ LET skipped == _skip_entry(e, config.directory_map, config.configuration_file_name,
                                  git_ignore, flags)
           f == [Top EXCEPT !.todo = Remaining(@, e, skipped), !.entry = e]
           m == MatchAndCount(f.backlog, e)
       IN IF skipped
          THEN /\ stack' = SetTop(f)
               /\ UNCHANGED <<pc, error, config>>
          ELSE /\ stack' = SetTop([f EXCEPT !.backlog = m.backlog, !.pending = m.pending])
               /\ config' = Counted(config, f.backlog, m.counted)
               /\ IF m.error # ""
                  THEN pc' = "done" /\ error' = Raise(m.error, MessagePath(e))
                  ELSE UNCHANGED <<pc, error>>
    /\ UNCHANGED <<history, yaml_dict, workers, joined, tree, flags, git_ignore, checked, batch, map_todo>>

\* one iteration of the inner loop for a matched directory: count, build the new
\* backlog, call the recursive scan
EnterDir ==
    /\ pc = "scan"
    /\ stack # <<>>
    /\ Top.pending # <<>>
    /\ LET idx == Head(Top.pending)
           f == [Top EXCEPT !.pending = Tail(@), !.backlog = Increment(@, <<idx>>)]
           backlog_entry == f.backlog[idx]
           counted == Counted(config, Top.backlog, <<idx>>)
           new_backlog == _handle_use_rule(backlog_entry.use_rule, counted.structure_rules)
                          \o _handle_if_exists(backlog_entry)
           new_dir == PathJoin(f.rel_dir, f.entry.path)
       IN /\ config' = counted
          /\ IF TooManyLinks(tree, new_dir)
             THEN /\ stack' = SetTop(f)
                  /\ pc' = "done"
                  /\ error' = Raise("OSError", new_dir)
             ELSE /\ stack' = Append(SetTop(f), Frame(new_dir, new_backlog, tree))
                  /\ UNCHANGED <<pc, error>>
    /\ UNCHANGED <<history, yaml_dict, workers, joined, tree, flags, git_ignore, checked, batch, map_todo>>

\* faulty variant: new_backlog is checked while children of the directory are still
\* to be listed
LeaveDirEarly ==
    /\ pc = "scan"
    /\ Len(stack) > 1
    /\ Top.pending = <<>>
    /\ LET r == _fail_if_required_entries_missing(Top.backlog)
       IN IF r.error # ""
          THEN /\ pc' = "done"
               /\ error' = [kind |-> r.error, path |-> <<>>, files |-> r.files, dirs |-> r.dirs]
               /\ UNCHANGED stack
          ELSE /\ Top.todo = {}
               /\ stack' = SubSeq(stack, 1, Len(stack) - 1)
               /\ UNCHANGED <<pc, error>>
    /\ UNCHANGED <<history, yaml_dict, workers, joined, config, tree, flags, git_ignore, checked, batch, map_todo>>

\* the recursive scan of a matched directory returns, and the caller checks new_backlog
LeaveDir ==
    /\ pc = "scan"
    /\ Len(stack) > 1
    /\ Top.todo = {}
    /\ Top.pending = <<>>
    /\ LET r == _fail_if_required_entries_missing(Top.backlog)
       IN IF r.error # ""
          THEN /\ pc' = "done"
               /\ error' = [kind |-> r.error, path |-> <<>>, files |-> r.files, dirs |-> r.dirs]
               /\ UNCHANGED stack
          ELSE /\ stack' = SubSeq(stack, 1, Len(stack) - 1)
               /\ UNCHANGED <<pc, error>>
    /\ UNCHANGED <<history, yaml_dict, workers, joined, config, tree, flags, git_ignore, checked, batch, map_todo>>

\* the recursive scan of a mapped directory returns, _process_map_dir checks its
\* backlog, and the loop over the directory map goes on or ends
FinishMapDir ==
    /\ pc = "scan"
    /\ Len(stack) = 1
    /\ Top.todo = {}
    /\ Top.pending = <<>>
    /\ LET r == _fail_if_required_entries_missing(Top.backlog)
       IN IF r.error # ""
          THEN /\ pc' = "done"
               /\ error' = [kind |-> r.error, path |-> <<>>, files |-> r.files, dirs |-> r.dirs]
               /\ UNCHANGED stack
          ELSE /\ stack' = <<>>
               /\ pc' = IF map_todo = <<>> THEN "done" ELSE "scan"
               /\ UNCHANGED error
    /\ UNCHANGED <<history, yaml_dict, workers, joined, config, tree, flags, git_ignore, checked, batch, map_todo>>

Next ==
    \/ StartFullScan
    \/ StartMapDir
    \/ \E e \in Universe : ScanEntry(e)
    \/ EnterDir
    \/ LeaveDir
    \/ FinishMapDir

Spec == Init /\ [][Next]_vars

\* ------------------------------------------------------ the diff scan, per call
\* the first call check_path(config, path, flags)
CheckPath(p) ==
    /\ pc # "scan"
    /\ ~checked.called
    /\ LET r == check_path(config, p, flags)
       IN checked' = [called |-> TRUE, path |-> p, error |-> r.error, issue |-> r.issue]
    /\ UNCHANGED <<history, yaml_dict, workers, joined, config, tree, flags, git_ignore, scan_vars, batch>>

\* the first call check_paths(config, paths, flags)
CheckPaths(ps) ==
    /\ pc # "scan"
    /\ ~batch.called
    /\ LET r == check_paths(config, ps, flags)
       IN batch' = [called |-> TRUE, paths |-> ps, error |-> r.error, issues |-> r.issues]
    /\ UNCHANGED <<history, yaml_dict, workers, joined, config, tree, flags, git_ignore, scan_vars, checked>>

\* a full scan, then the check of one path of the same tree
NextDiff ==
    \/ Next
    \/ (pc = "done" /\ \E p \in CheckedPaths : CheckPath(p))

SpecDiff == Init /\ [][NextDiff]_vars

\* the paths of a batch: the files of the root and of the directory d
BatchPaths == {PathJoin(dir, n) : dir \in {<<>>, NameD}, n \in FileNames}

\* the lists of paths handed to one batch check
Batches == UNION {[1..n -> BatchPaths] : n \in 0..MaxBatch}

\* the diff scanner needs no scan of the tree
InitBatch ==
    /\ yaml_dict \in YamlDicts
    /\ config = Configuration(yaml_dict)
    /\ config.error = ""
    /\ tree = {}
    /\ flags = Flags
    /\ git_ignore = {}
    /\ pc = "idle"
    /\ map_todo = <<>>
    /\ stack = <<>>
    /\ error = NoError
    /\ checked = NoCheck
    /\ batch = NoBatch
    /\ workers = <<>>
    /\ joined = NoJoin
    /\ history = <<>>

\* one batch check, then the check of one of its paths alone
NextBatch ==
    \/ \E ps \in Batches : CheckPaths(ps)
    \/ (batch.called /\ \E i \in 1..Len(batch.paths) : CheckPath(batch.paths[i]))

SpecBatch == InitBatch /\ [][NextBatch]_vars

\* ------------------------------------- scans repeated on the same Configuration
\* a Configuration that maps the root directory only, before the first scan
InitRepeat ==
    /\ tree \in Trees
    /\ yaml_dict \in {y \in YamlDicts : DictKeys(y.directory_map) = {MapRoot}}
    /\ config = Configuration(yaml_dict)
    /\ config.error = ""
    /\ flags = Flags
    /\ git_ignore = {}
    /\ pc = "idle"
    /\ map_todo = <<>>
    /\ stack = <<>>
    /\ error = NoError
    /\ checked = NoCheck
    /\ batch = NoBatch
    /\ workers = <<>>
    /\ joined = NoJoin
    /\ history = <<>>

\* check_path(config, path, flags) called after a full scan has ended
CheckPathAfterScan(p) ==
    /\ pc = "done"
    /\ ~checked.called
    /\ LET r == check_path(config, p, flags)
       IN checked' = [called |-> TRUE, path |-> p, error |-> r.error, issue |-> r.issue]
    /\ UNCHANGED <<history, yaml_dict, workers, joined, config, tree, flags, git_ignore,
                   scan_vars, batch>>

\* the caller takes the outcome of the scan and is ready to call
\* assert_full_repository_structure again, with the same Configuration object
ScanAgain ==
    /\ pc = "done"
    /\ Len(history) + 1 < MaxScans
    /\ history' = Append(history, error.kind = "")
    /\ pc' = "idle"
    /\ map_todo' = <<>>
    /\ stack' = <<>>
    /\ error' = NoError
    /\ checked' = NoCheck
    /\ UNCHANGED <<yaml_dict, workers, joined, config, tree, flags, git_ignore, batch>>

NextRepeat ==
    \/ Next
    \/ \E p \in BatchPaths : CheckPathAfterScan(p)
    \/ ScanAgain

SpecRepeat == InitRepeat /\ [][NextRepeat]_vars

\* --------------------------------------------- scans with an ignored directory
MapDD == <<SLASH, "d", SLASH, "d", SLASH>>

\* the root is mapped to rule r, the directory d or d/d to the builtin rule ignore
IgnoreYamlDicts ==
    { [structure_rules |-> << [k |-> RuleR, v |-> r], [k |-> RuleS, v |-> YamlRuleS] >>,
       directory_map |-> << [k |-> MapRoot, v |-> <<UseRule(RuleR)>>],
                            [k |-> ignored, v |-> <<UseRule(IGNORE)>>] >>] :
          r \in YamlRules, ignored \in {MapD, MapDD} }

InitIgnore ==
    /\ tree \in Trees
    /\ yaml_dict \in IgnoreYamlDicts
    /\ config = Configuration(yaml_dict)
    /\ flags = Flags
    /\ git_ignore = {}
    /\ pc = "idle"
    /\ map_todo = <<>>
    /\ stack = <<>>
    /\ error = NoError
    /\ checked = NoCheck
    /\ batch = NoBatch
    /\ workers = <<>>
    /\ joined = NoJoin
    /\ history = <<>>

NextIgnore ==
    \/ Next
    \/ \E p \in CheckedPaths : CheckPathAfterScan(p)

SpecIgnore == InitIgnore /\ [][NextIgnore]_vars

\* ------------------------------- scans with the directory map in either order
\* the same two mappings, "/" listed first or last
OrderYamlDicts ==
    { [structure_rules |-> << [k |-> RuleR, v |-> r], [k |-> RuleS, v |-> YamlRuleS] >>,
       directory_map |-> IF root_first
                         THEN << [k |-> MapRoot, v |-> <<UseRule(RuleR)>>],
                                 [k |-> MapD, v |-> <<UseRule(sub)>>] >>
                         ELSE << [k |-> MapD, v |-> <<UseRule(sub)>>],
                                 [k |-> MapRoot, v |-> <<UseRule(RuleR)>>] >>] :
          r \in YamlRules, sub \in {RuleR, RuleS}, root_first \in BOOLEAN }

InitOrder ==
    /\ tree \in Trees
    /\ yaml_dict \in OrderYamlDicts
    /\ config = Configuration(yaml_dict)
    /\ config.error = ""
    /\ flags = Flags
    /\ git_ignore = {}
    /\ pc = "idle"
    /\ map_todo = <<>>
    /\ stack = <<>>
    /\ error = NoError
    /\ checked = NoCheck
    /\ batch = NoBatch
    /\ workers = <<>>
    /\ joined = NoJoin
    /\ history = <<>>

SpecOrder == InitOrder /\ [][Next]_vars

\* ------------------------------------------- scans of sibling directories
NameE == <<"e">>

\* the root holds a file and the directories d and e, each of them up to two files
SiblingUniverse ==
    {FsEntry(<<>>, NameA, FALSE), FsEntry(<<>>, NameD, TRUE), FsEntry(<<>>, NameE, TRUE)}
    \cup {FsEntry(dir, n, FALSE) : dir \in {NameD, NameE}, n \in FileNames}

SiblingTrees == {t \in SUBSET SiblingUniverse : Cardinality(t) <= MaxEntries /\ IsTree(t)}

InitSiblings ==
    /\ tree \in SiblingTrees
    /\ yaml_dict \in YamlDicts
    /\ config = Configuration(yaml_dict)
    /\ config.error = ""
    /\ flags = Flags
    /\ git_ignore = {}
    /\ pc = "idle"
    /\ map_todo = <<>>
    /\ stack = <<>>
    /\ error = NoError
    /\ checked = NoCheck
    /\ batch = NoBatch
    /\ workers = <<>>
    /\ joined = NoJoin
    /\ history = <<>>

NextSiblings ==
    \/ StartFullScan
    \/ StartMapDir
    \/ \E e \in SiblingUniverse : ScanEntry(e)
    \/ EnterDir
    \/ LeaveDir
    \/ FinishMapDir

SpecSiblings == InitSiblings /\ [][NextSiblings]_vars

\* ---------------------------------------------- scans with entries to skip
NameHidden == <<".", "a">>
NameLink == <<"s">>
NameConfig == <<"c">>

SkipEntry(rel_dir, name, is_dir, is_symlink) ==
    [path |-> name, rel_dir |-> rel_dir, is_dir |-> is_dir, is_symlink |-> is_symlink]

\* a file, a git-ignorable file, a hidden file, .gitignore, the configuration file,
\* the directory .git, a symlink to a directory, a directory the map may bind
SkipUniverse ==
    {SkipEntry(<<>>, n, FALSE, FALSE) : n \in {NameA, NameAB, NameHidden, GITIGNORE_NAME, NameConfig}}
    \cup {SkipEntry(<<>>, GIT_NAME, TRUE, FALSE), SkipEntry(GIT_NAME, NameA, FALSE, FALSE),
          SkipEntry(<<>>, NameLink, TRUE, TRUE), SkipEntry(NameLink, NameA, FALSE, FALSE),
          SkipEntry(<<>>, NameD, TRUE, FALSE), SkipEntry(NameD, NameA, FALSE, FALSE)}

SkipTrees == {t \in SUBSET SkipUniverse : Cardinality(t) <= MaxEntries /\ IsTree(t)}

SkipYamlRules ==
    { <<>>,
      << [require |-> <<STAR>>] >>,
      << [forbid |-> <<STAR>>], [forbid |-> <<STAR, SLASH>>] >>,
      << [require |-> <<STAR>>],
         [require |-> <<STAR, SLASH>>, if_exists |-> <<[allow |-> <<STAR>>]>>] >> }

SkipYamlDicts ==
    { [structure_rules |-> << [k |-> RuleR, v |-> r] >>,
       directory_map |-> m] :
          r \in SkipYamlRules,
          m \in { << [k |-> MapRoot, v |-> <<UseRule(RuleR)>>] >>,
                  << [k |-> MapRoot, v |-> <<UseRule(RuleR)>>],
                     [k |-> MapD, v |-> <<UseRule(RuleR)>>] >> } }

InitSkip ==
    /\ tree \in SkipTrees
    /\ yaml_dict \in SkipYamlDicts
    /\ \/ config = Configuration(yaml_dict) /\ git_ignore = {}
       \/ config = ConfigurationFromFile(NameConfig, yaml_dict) /\ git_ignore = {NameAB}
    /\ config.error = ""
    /\ flags \in {Flags, [Flags EXCEPT !.follow_symlinks = TRUE, !.include_hidden = FALSE]}
    /\ pc = "idle"
    /\ map_todo = <<>>
    /\ stack = <<>>
    /\ error = NoError
    /\ checked = NoCheck
    /\ batch = NoBatch
    /\ workers = <<>>
    /\ joined = NoJoin
    /\ history = <<>>

NextSkip ==
    \/ StartFullScan
    \/ StartMapDir
    \/ \E e \in SkipUniverse : ScanEntry(e)
    \/ EnterDir
    \/ LeaveDir
    \/ FinishMapDir

SpecSkip == InitSkip /\ [][NextSkip]_vars

\* ---------------------------------- scans of trees with links to an ancestor
\* a symbolic link to the repository root; os.DirEntry.is_dir() follows the link
LinkToRoot(rel_dir) ==
    [path |-> NameLink, rel_dir |-> rel_dir, is_dir |-> TRUE, is_symlink |-> TRUE,
     target |-> <<>>]

LoopUniverse ==
    {FsEntry(<<>>, NameA, FALSE), FsEntry(<<>>, NameD, TRUE), FsEntry(NameD, NameA, FALSE),
     LinkToRoot(<<>>), LinkToRoot(NameD)}

LoopTrees == {t \in SUBSET LoopUniverse : Cardinality(t) <= MaxEntries /\ IsTree(t)}

\* rule r with and without an entry that applies r again below any directory
LoopYamlDicts ==
    { [structure_rules |-> << [k |-> RuleR, v |-> r] >>,
       directory_map |-> << [k |-> MapRoot, v |-> <<UseRule(RuleR)>>] >>] :
          r \in { << [allow |-> <<"a">>], [allow |-> <<STAR, SLASH>>, use_rule |-> RuleR] >>,
                  << [require |-> <<"a">>], [allow |-> <<"s", SLASH>>, use_rule |-> RuleR] >>,
                  << [allow |-> <<"a">>],
                     [allow |-> <<STAR, SLASH>>, if_exists |-> <<[allow |-> <<STAR>>]>>] >> } }

InitLoop ==
    /\ tree \in LoopTrees
    /\ yaml_dict \in LoopYamlDicts
    /\ config = Configuration(yaml_dict)
    /\ config.error = ""
    /\ flags \in {Flags, [Flags EXCEPT !.follow_symlinks = TRUE]}
    /\ git_ignore = {}
    /\ pc = "idle"
    /\ map_todo = <<>>
    /\ stack = <<>>
    /\ error = NoError
    /\ checked = NoCheck
    /\ batch = NoBatch
    /\ workers = <<>>
    /\ joined = NoJoin
    /\ history = <<>>

\* the entries a call lists are those of LoopUniverse, at any depth
NextLoop ==
    \/ StartFullScan
    \/ StartMapDir
    \/ \E e \in (IF stack = <<>> THEN {} ELSE Top.todo) : ScanEntry(e)
    \/ EnterDir
    \/ LeaveDir
    \/ FinishMapDir

\* the scan is one sequential computation: it takes its next step whenever it has one
SpecLoop == InitLoop /\ [][NextLoop]_vars /\ WF_vars(NextLoop)

\* ------------------------------------------------------------ companion files
NameWC == <<"w", ".", "c">>
NameWH == <<"w", ".", "h">>
NameWT == <<"w", ".", "t">>
NameEC == <<"e", ".", "c">>
NameEH == <<"e", ".", "h">>
CompanionNames == {NameWC, NameWH, NameWT, NameEC, NameEH}

\* the files of the root and of the mapped directory d
CompanionUniverse ==
    {FsEntry(<<>>, NameD, TRUE)}
    \cup {FsEntry(rel_dir, name, FALSE) : rel_dir \in {<<>>, NameD}, name \in CompanionNames}

CompanionTrees ==
    {t \in SUBSET CompanionUniverse : Cardinality(t) <= MaxEntries /\ IsTree(t)}

\* requires_companion: [{require: '{{b}}.h'}, {require: '{{b}}.t'}]
CompanionLists ==
    { <<>>,
      << [require |-> Placeholder(GroupName) \o <<".", "h">>] >>,
      << [require |-> Placeholder(GroupName) \o <<".", "h">>],
         [require |-> Placeholder(GroupName) \o <<".", "t">>] >> }

\* rule r: {allow: '(?P<b>.*)\.c', requires_companion: ...}, {allow: '.*'}
CompanionYamlDicts ==
    { [structure_rules |->
           << [k |-> RuleR,
               v |-> << [allow |-> <<GROUP, ".", "c">>, requires_companion |-> companions],
                        [allow |-> <<STAR>>] >>] >>,
       directory_map |-> << [k |-> MapRoot, v |-> <<UseRule(RuleR)>>],
                            [k |-> MapD, v |-> <<UseRule(RuleR)>>] >>] :
          companions \in CompanionLists }

\* match.groupdict() of a full match of a pattern whose only wildcard is the group:
\* the group takes what the literals before and after it leave
GroupDict(pattern, name) ==
    LET g == CHOOSE i \in 1..Len(pattern) : pattern[i] = GROUP
    IN << [k |-> GroupName, v |-> SubSeq(name, g, Len(name) - (Len(pattern) - g))] >>

RECURSIVE Instantiate(_, _)
\* the template with every {{name}} replaced by the text the group captured
Instantiate(template, groups) ==
    IF groups = <<>> THEN template
    ELSE Instantiate(StrReplace(template, Placeholder(Head(groups).k), Head(groups).v),
                     Tail(groups))

\* faulty variant: the companion is looked up in the repository root
ExistsInRoot(t, rel_dir, name) == \E e \in t : EntryPath(e) = name /\ ~e.is_dir

\* os.path.exists of the companion next to the matched file
CompanionExists(t, rel_dir, name) ==
    \E e \in t : EntryPath(e) = PathJoin(rel_dir, name)

CompanionIssue(path, missing) ==
    [code |-> "missing_companion", path |-> path, message |-> missing]

\* the companion templates of the configuration entry, as configured
RequiresCompanion(entry_yaml) ==
    IF Has(entry_yaml, "requires_companion")
    THEN [i \in 1..Len(entry_yaml.requires_companion) |-> entry_yaml.requires_companion[i].require]
    ELSE <<>>

\* the companion check of a file that lies directly in a mapped directory and
\* matched entry index of the directory's rule: the first missing companion is reported
CheckCompanions(yaml, cfg, path, index, t) ==
    LET map_dir == _get_corresponding_map_dir(cfg, path)
        rel_dir == map_dir_to_rel_dir(map_dir)
        name == RelPath(path, rel_dir)
        rule == DictGet(cfg.directory_map, map_dir)[1]
        entry_yaml == DictGet(yaml.structure_rules, rule)[index]
        groups == GroupDict(_get_pattern(entry_yaml), name)
        templates == RequiresCompanion(entry_yaml)
        expected == [i \in 1..Len(templates) |-> Instantiate(templates[i], groups)]
        missing == SelectSeq(expected, LAMBDA c : ~CompanionExists(t, rel_dir, c))
    IN IF missing = <<>> THEN None ELSE CompanionIssue(path, Head(missing))

\* check_path with the companion check after the match of the final file segment
check_path_companion(yaml, cfg, path, fl, t) ==
    LET r == check_path(cfg, path, fl)
        map_dir == _get_corresponding_map_dir(cfg, path)
        backlog == _map_dir_to_entry_backlog(cfg.directory_map, cfg.structure_rules,
                                             map_dir_to_rel_dir(map_dir))
        name == RelPath(path, map_dir_to_rel_dir(map_dir))
        m == _get_matching_item_index_safe(backlog, name, FALSE)
    IN IF r.error # "" \/ r.issue # None \/ ~m.success THEN r
       ELSE [error |-> "", issue |-> CheckCompanions(yaml, cfg, path, m.index, t)]

CompanionPaths == {EntryPath(e) : e \in {x \in CompanionUniverse : ~x.is_dir}}

InitCompanion ==
    /\ tree \in CompanionTrees
    /\ yaml_dict \in CompanionYamlDicts
    /\ config = Configuration(yaml_dict)
    /\ config.error = ""
    /\ flags = Flags
    /\ git_ignore = {}
    /\ pc = "idle"
    /\ map_todo = <<>>
    /\ stack = <<>>
    /\ error = NoError
    /\ checked = NoCheck
    /\ batch = NoBatch
    /\ workers = <<>>
    /\ joined = NoJoin
    /\ history = <<>>

\* the call check_path(path) of a file of the tree
CheckPathCompanion(p) ==
    /\ ~checked.called
    /\ \E e \in tree : EntryPath(e) = p /\ ~e.is_dir
    /\ LET r == check_path_companion(yaml_dict, config, p, flags, tree)
       IN checked' = [called |-> TRUE, path |-> p, error |-> r.error, issue |-> r.issue]
    /\ UNCHANGED <<history, yaml_dict, workers, joined, config, tree, flags, git_ignore,
                   scan_vars, batch>>

NextCompanion == \E p \in CompanionPaths : CheckPathCompanion(p)

SpecCompanion == InitCompanion /\ [][NextCompanion]_vars

\* ---------------------------- repo_structure_enforcement: the scan with jobs > 1
\* the outcome of one step of a call of _process_map_dir
Outcome(call_stack, raised, finished) ==
    [stack |-> call_stack, error |-> raised, finished |-> finished]

\* _process_map_dir up to its call of the recursive scan, and that call's os.scandir
ProcessMapDir(cfg, t, map_dir) ==
    LET rel_dir == map_dir_to_rel_dir(map_dir)
        backlog == _map_dir_to_entry_backlog(cfg.directory_map, cfg.structure_rules, rel_dir)
    IN IF IsDirectory(t, rel_dir)
       THEN Outcome(<<Frame(rel_dir, backlog, t)>>, NoError, FALSE)
       ELSE Outcome(<<>>,
                    Raise(IF \E e \in t : EntryPath(e) = rel_dir
                          THEN "NotADirectoryError" ELSE "FileNotFoundError", rel_dir),
                    TRUE)

\* the path the matcher's error message names: a directory with "/" appended
UnspecifiedPath(e) == IF e.is_dir THEN e.path \o <<SLASH>> ELSE e.path

\* the steps _fail_if_invalid_repo_structure_recursive and _process_map_dir can take
\* next on a call stack: the inner loop over the matches of a directory, else an
\* entry os.scandir yields, else the return of the call and the check of its backlog
ProcessSteps(call_stack, cfg, t, gi, fl) ==
    LET top == call_stack[Len(call_stack)]
        below == SubSeq(call_stack, 1, Len(call_stack) - 1)
    IN IF top.pending # <<>>
       THEN LET idx == Head(top.pending)
                f == [top EXCEPT !.pending = Tail(@), !.backlog = Increment(@, <<idx>>)]
                new_backlog == _handle_use_rule(f.backlog[idx].use_rule, cfg.structure_rules)
                               \o _handle_if_exists(f.backlog[idx])
            IN {Outcome(below \o <<f, Frame(PathJoin(f.rel_dir, f.entry.path), new_backlog, t)>>,
                        NoError, FALSE)}
       ELSE IF top.todo # {}
       THEN {LET f == [top EXCEPT !.todo = @ \ {e}, !.entry = e]
                 m == _get_matching_item_index(f.backlog, e.path, e.is_dir)
             IN IF _skip_entry(e, cfg.directory_map, cfg.configuration_file_name, gi, fl)
                THEN Outcome(below \o <<f>>, NoError, FALSE)
                ELSE IF m.error # ""
                THEN Outcome(below \o <<f>>, Raise(m.error, UnspecifiedPath(e)), TRUE)
                ELSE IF e.is_dir
                THEN Outcome(below \o <<[f EXCEPT !.pending = m.indices]>>, NoError, FALSE)
                ELSE Outcome(below \o <<[f EXCEPT !.backlog = Increment(@, m.indices)]>>,
                             NoError, FALSE)
             : e \in top.todo}
       ELSE LET r == _fail_if_required_entries_missing(top.backlog)
            IN IF r.error # ""
               THEN {Outcome(call_stack,
                             [kind |-> r.error, path |-> <<>>, files |-> r.files,
                              dirs |-> r.dirs],
                             TRUE)}
               ELSE {Outcome(below, NoError, below = <<>>)}

\* a task of the process pool: _process_map_dir with the arguments pickled for it
Worker(map_dir, cfg, fl) ==
    [map_dir |-> map_dir, config |-> cfg, flags |-> fl, status |-> "submitted",
     stack |-> <<>>, error |-> NoError]

\* faulty variant: only the first future's result is taken
FirstFuture(futures) ==
    IF futures = <<>> THEN NoError ELSE Head(futures).error

RECURSIVE FirstFailure(_)
\* for future in futures: future.result() -- the first exception in the order of
\* the futures, if any
FirstFailure(futures) ==
    IF futures = <<>> THEN NoError
    ELSE IF Head(futures).error # NoError THEN Head(futures).error
    ELSE FirstFailure(Tail(futures))

\* assert_full_repository_structure with flags.jobs > 1, up to the futures list
SubmitAll ==
    /\ flags.jobs > 1
    /\ ~joined.called
    /\ IF RootMappingMissing(config.directory_map)
       THEN /\ joined' = [called |-> TRUE, done |-> TRUE,
                          error |-> Raise("MissingMappingError", <<>>)]
            /\ UNCHANGED workers
       ELSE /\ joined' = [joined EXCEPT !.called = TRUE]
            /\ workers' = [i \in 1..Len(config.directory_map) |->
                              Worker(config.directory_map[i].k, config, flags)]
    /\ UNCHANGED <<history, yaml_dict, config, tree, flags, git_ignore, scan_vars, checked,
                   batch>>

\* a worker process takes a task from the queue and starts it
WorkerStart(w) ==
    /\ w \in 1..Len(workers)
    /\ workers[w].status = "submitted"
    /\ LET r == ProcessMapDir(workers[w].config, tree, workers[w].map_dir)
       IN workers' = [workers EXCEPT ![w].stack = r.stack,
                                     ![w].error = r.error,
                                     ![w].status = IF r.finished THEN "finished"
                                                   ELSE "running"]
    /\ UNCHANGED <<history, yaml_dict, joined, config, tree, flags, git_ignore, scan_vars,
                   checked, batch>>

\* a worker process takes one step of its task
WorkerStep(w) ==
    /\ w \in 1..Len(workers)
    /\ workers[w].status = "running"
    /\ \E r \in ProcessSteps(workers[w].stack, workers[w].config, tree, git_ignore,
                             workers[w].flags) :
           workers' = [workers EXCEPT ![w].stack = r.stack,
                                      ![w].error = r.error,
                                      ![w].status = IF r.finished THEN "finished"
                                                    ELSE "running"]
    /\ UNCHANGED <<history, yaml_dict, joined, config, tree, flags, git_ignore, scan_vars,
                   checked, batch>>

\* the loop over future.result() and the exit of the with block, which waits for
\* every task: the call returns or raises the first failure
Join ==
    /\ joined.called
    /\ ~joined.done
    /\ \A w \in 1..Len(workers) : workers[w].status = "finished"
    /\ joined' = [joined EXCEPT !.done = TRUE, !.error = FirstFailure(workers)]
    /\ UNCHANGED <<history, yaml_dict, workers, config, tree, flags, git_ignore, scan_vars,
                   checked, batch>>

\* assert_full_repository_structure called with jobs = 1 on the same tree and
\* Configuration, up to its loop over the directory map
SequentialStart ==
    /\ joined.done
    /\ pc = "idle"
    /\ flags' = [flags EXCEPT !.jobs = 1]
    /\ IF RootMappingMissing(config.directory_map)
       THEN /\ pc' = "done"
            /\ error' = Raise("MissingMappingError", <<>>)
            /\ UNCHANGED map_todo
       ELSE /\ pc' = "scan"
            /\ map_todo' = [i \in 1..Len(config.directory_map) |-> config.directory_map[i].k]
            /\ UNCHANGED error
    /\ UNCHANGED <<history, yaml_dict, workers, joined, config, tree, git_ignore, checked,
                   batch, stack>>

\* the loop over the directory map calls _process_map_dir
SequentialMapDir ==
    /\ flags.jobs = 1
    /\ pc = "scan"
    /\ stack = <<>>
    /\ map_todo # <<>>
    /\ LET r == ProcessMapDir(config, tree, Head(map_todo))
       IN /\ stack' = r.stack
          /\ error' = r.error
          /\ pc' = IF r.error # NoError THEN "done" ELSE "scan"
    /\ map_todo' = Tail(map_todo)
    /\ UNCHANGED <<history, yaml_dict, workers, joined, config, tree, flags, git_ignore,
                   checked, batch>>

\* one step of the _process_map_dir call of the sequential loop
SequentialStep ==
    /\ flags.jobs = 1
    /\ pc = "scan"
    /\ stack # <<>>
    /\ \E r \in ProcessSteps(stack, config, tree, git_ignore, flags) :
           /\ stack' = r.stack
           /\ error' = r.error
           /\ pc' = IF r.error # NoError \/ (r.finished /\ map_todo = <<>>)
                    THEN "done" ELSE "scan"
    /\ UNCHANGED <<history, yaml_dict, workers, joined, config, tree, flags, git_ignore,
                   checked, batch, map_todo>>

\* a Configuration with two mapped directories, before the call with jobs = 2
InitJobs ==
    /\ tree \in Trees
    /\ yaml_dict \in {y \in YamlDicts : Len(y.directory_map) > 1}
    /\ config = Configuration(yaml_dict)
    /\ config.error = ""
    /\ flags = [Flags EXCEPT !.jobs = 2]
    /\ git_ignore = {}
    /\ pc = "idle"
    /\ map_todo = <<>>
    /\ stack = <<>>
    /\ error = NoError
    /\ checked = NoCheck
    /\ batch = NoBatch
    /\ workers = <<>>
    /\ joined = NoJoin
    /\ history = <<>>

NextJobs ==
    \/ SubmitAll
    \/ \E w \in 1..Len(workers) : WorkerStart(w)
    \/ \E w \in 1..Len(workers) : WorkerStep(w)
    \/ Join
    \/ SequentialStart
    \/ SequentialMapDir
    \/ SequentialStep

SpecJobs == InitJobs /\ [][NextJobs]_vars

\* ------------------------------------------------------------------ claims
\* What the claims mean by a match, stated without the matcher: the name is cut into
\* one piece per token, a literal's piece is that one character, a ".*" piece is any.
Denotes(p, s) ==
    \E cut \in [1..(Len(p) + 1) -> 0..Len(s)] :
        /\ cut[1] = 0
        /\ cut[Len(p) + 1] = Len(s)
        /\ \A i \in 1..Len(p) :
               /\ cut[i] <= cut[i + 1]
               /\ p[i] # STAR => (cut[i + 1] = cut[i] + 1 /\ s[cut[i + 1]] = p[i])

Satisfies(v, e) == Denotes(v.path, e.path) /\ v.is_dir = e.is_dir
Skipped(e) ==
    _skip_entry(e, config.directory_map, config.configuration_file_name, git_ignore, flags)
\* the entries of its directory a call has taken from os.scandir so far
Processed(f) == ScanDir(tree, f.rel_dir) \ f.todo
RaisedAt(e) ==
    /\ error.kind \in {"UnspecifiedEntryError", "ForbiddenEntryError"}
    /\ error.path = MessagePath(e)
InSeq(x, seq) == \E i \in 1..Len(seq) : seq[i] = x

\* C1: a non-skipped entry that matches a Forbidden entry of the active backlog makes
\* the scan raise ForbiddenEntryError for it, also when it matches Required or Optional
\* entries too, and no count of the backlog includes that entry.
C1_ForbiddenPrecedence ==
    \A k \in 1..Len(stack) :
        LET f == stack[k]
        IN (/\ f.entry # NoEntry
            /\ ~Skipped(f.entry)
            /\ \E i \in 1..Len(f.backlog) :
                   f.backlog[i].is_forbidden /\ Satisfies(f.backlog[i], f.entry))
           => /\ error.kind = "ForbiddenEntryError"
              /\ error.path = MessagePath(f.entry)
              /\ \A i \in 1..Len(f.backlog) :
                     f.backlog[i].count =
                         Cardinality({e \in Processed(f) \ {f.entry} :
                                         ~Skipped(e) /\ Satisfies(f.backlog[i], e)})

\* a forbidden file that a Required or Optional entry of the same backlog matches too,
\* met after another entry of the directory has been counted
C1_Witness ==
    /\ error.kind = "ForbiddenEntryError"
    /\ stack # <<>>
    /\ \E i \in 1..Len(Top.backlog) :
           ~Top.backlog[i].is_forbidden /\ Satisfies(Top.backlog[i], Top.entry)
    /\ \E i \in 1..Len(Top.backlog) : Top.backlog[i].count > 0

ScopeFinished == pc = "scan" /\ stack # <<>> /\ Top.todo = {} /\ Top.pending = <<>>
\* the patterns of the Required entries of the given kind that nothing matched
Unmatched(backlog, is_dir) ==
    LET es == SelectSeq(backlog,
                        LAMBDA v : v.is_required /\ v.count = 0 /\ v.is_dir = is_dir)
    IN [i \in 1..Len(es) |-> es[i].path]

\* C2: when the traversal of a scope has finished without error, the next step raises
\* MissingRequiredEntriesError exactly if the scope's backlog holds a Required entry
\* with count 0, and the error names all those patterns, files and directories apart.
C2_MissingRequiredIff ==
    [][ScopeFinished =>
          LET files == Unmatched(Top.backlog, FALSE)
              dirs == Unmatched(Top.backlog, TRUE)
          IN IF files = <<>> /\ dirs = <<>>
             THEN error' = NoError
             ELSE error' = [kind |-> "MissingRequiredEntriesError", path |-> <<>>,
                            files |-> files, dirs |-> dirs]]_vars

\* a scope below the top level whose files were matched and whose Required file was not
C2_Witness ==
    /\ error.kind = "MissingRequiredEntriesError"
    /\ Len(stack) > 1
    /\ error.files # <<>>
    /\ Processed(Top) # {}

\* C3: a non-skipped entry raises UnspecifiedEntryError exactly if no entry of the
\* active backlog matches its whole name and has its type.
C3_UnspecifiedIff ==
    \A k \in 1..Len(stack) :
        LET f == stack[k]
        IN (f.entry # NoEntry /\ ~Skipped(f.entry))
           => ((error.kind = "UnspecifiedEntryError" /\ error.path = MessagePath(f.entry))
               <=> ~\E i \in 1..Len(f.backlog) : Satisfies(f.backlog[i], f.entry))

\* an unspecified file of which a literal pattern of the backlog is a proper prefix
C3_Witness ==
    /\ error.kind = "UnspecifiedEntryError"
    /\ stack # <<>>
    /\ \E i \in 1..Len(Top.backlog) :
           LET p == Top.backlog[i].path
           IN /\ ~InSeq(STAR, p)
              /\ Len(p) < Len(Top.entry.path)
              /\ p = SubSeq(Top.entry.path, 1, Len(p))
              /\ Top.backlog[i].is_dir = Top.entry.is_dir

\* C4: every entry of a backlog is counted once for each non-skipped entry of the
\* directory that matches it and raised no error (a directory as soon as the inner loop
\* has reached that index); so a Required pattern reported missing matches no entry of
\* the scope.
C4_EveryMatchCounted ==
    /\ \A k \in 1..Len(stack) :
           LET f == stack[k]
           IN \A i \in 1..Len(f.backlog) :
                  f.backlog[i].count =
                      Cardinality({e \in Processed(f) :
                          /\ ~Skipped(e)
                          /\ Satisfies(f.backlog[i], e)
                          /\ ~(e = f.entry /\ (RaisedAt(e) \/ InSeq(i, f.pending)))})
    /\ error.kind = "MissingRequiredEntriesError" =>
           \A e \in ScanDir(tree, Top.rel_dir) :
               ~Skipped(e) =>
                   /\ ~e.is_dir => \A j \in 1..Len(error.files) : ~Denotes(error.files[j], e.path)
                   /\ e.is_dir => \A j \in 1..Len(error.dirs) : ~Denotes(error.dirs[j], e.path)

\* one file that two Required entries of the backlog match, counted by both
C4_Witness ==
    /\ stack # <<>>
    /\ ~Top.entry.is_dir
    /\ \E i, j \in 1..Len(Top.backlog) :
           /\ i # j
           /\ Top.backlog[i].is_required /\ Top.backlog[j].is_required
           /\ Satisfies(Top.backlog[i], Top.entry) /\ Satisfies(Top.backlog[j], Top.entry)
           /\ Top.backlog[i].count = 1 /\ Top.backlog[j].count = 1

\* C5: without a "/" key the full scan raises MissingMappingError, and no mapped
\* directory is processed or listed, whatever else the directory map holds.
C5_MissingRootMapping ==
    ~DictHas(config.directory_map, MapRoot) =>
        /\ stack = <<>>
        /\ map_todo = <<>>
        /\ pc # "scan"
        /\ pc = "done" => error.kind = "MissingMappingError"

\* the error raised for a directory map that maps an existing directory, not "/"
C5_Witness ==
    /\ error.kind = "MissingMappingError"
    /\ \E i \in 1..Len(config.directory_map) :
           IsDirectory(tree, map_dir_to_rel_dir(config.directory_map[i].k))

\* the rule names bound to "/" (an entry's use_rule names its own rule, so nothing
\* else is reachable from them)
RootRules == IF DictHas(config.directory_map, MapRoot)
             THEN DictGet(config.directory_map, MapRoot) ELSE <<>>
NoRequiredFromRoot ==
    \A i \in 1..Len(RootRules) :
        \A j \in 1..Len(DictGet(config.structure_rules, RootRules[i])) :
            ~DictGet(config.structure_rules, RootRules[i])[j].is_required

\* C6: with a root mapping and an empty tree the full scan succeeds exactly if no rule
\* reachable from "/" has a Required entry.
C6_EmptyTreeIff ==
    (tree = {} /\ DictHas(config.directory_map, MapRoot) /\ pc = "done")
        => (error = NoError <=> NoRequiredFromRoot)

\* the only rule of the configuration in use, when "/" alone is mapped to r
RuleOfR == DictGet(config.structure_rules, RuleR)
\* r alone is mapped, at "/", and its directory entries are the self-recursive d/
SelfRecursiveOnly ==
    /\ config.directory_map = << [k |-> MapRoot, v |-> <<RuleR>>] >>
    /\ \E i \in 1..Len(RuleOfR) : RuleOfR[i].is_dir
    /\ \A i \in 1..Len(RuleOfR) :
           RuleOfR[i].is_dir => (RuleOfR[i].use_rule = RuleR /\ RuleOfR[i].if_exists = <<>>)
\* an entry that r allows: some entry of r matches it and no Forbidden one does
AllowedByR(e) ==
    /\ \E i \in 1..Len(RuleOfR) : Satisfies(RuleOfR[i], e)
    /\ \A i \in 1..Len(RuleOfR) : Satisfies(RuleOfR[i], e) => ~RuleOfR[i].is_forbidden
DirsOf(t) == {<<>>} \cup {EntryPath(e) : e \in {x \in t : x.is_dir}}
\* at every depth the children of a directory are allowed by r and meet its Required
ConformsToR(t) ==
    \A dir \in DirsOf(t) :
        /\ \A e \in ScanDir(t, dir) : AllowedByR(e)
        /\ \A i \in 1..Len(RuleOfR) :
               RuleOfR[i].is_required => \E e \in ScanDir(t, dir) : Satisfies(RuleOfR[i], e)
\* the entries of the tree on the way to a path, the entry of the path included
OnPath(t, path) ==
    {e \in t : LET ep == Components(EntryPath(e))
               IN Len(ep) <= Len(Components(path))
                  /\ ep = SubSeq(Components(path), 1, Len(ep))}
IsFileOf(t, path) == \E e \in t : ~e.is_dir /\ EntryPath(e) = path

\* C7: under a rule r whose directory entry uses r itself, the full scan accepts exactly
\* the trees whose directories, at every depth, hold what r asks for, and check_path
\* accepts exactly the files whose every segment r allows.
C7_SelfRecursionAnyDepth ==
    SelfRecursiveOnly =>
        /\ pc = "done" => (error = NoError <=> ConformsToR(tree))
        /\ (checked.called /\ IsFileOf(tree, checked.path)) =>
               /\ checked.error = ""
               /\ checked.issue = None <=> \A e \in OnPath(tree, checked.path) : AllowedByR(e)

\* an accepted tree with a file two directories deep, and that file accepted alone
C7_Witness ==
    /\ SelfRecursiveOnly
    /\ pc = "done"
    /\ error = NoError
    /\ checked.called
    /\ checked.issue = None
    /\ \E e \in tree : ~e.is_dir /\ e.rel_dir = Chain(2) /\ EntryPath(e) = checked.path

\* the entry of the tree a full-scan error names
ErrorEntryPath == LStrip(error.path, SLASH)

\* C8: for a file of the tree, check_path reports an issue exactly if a full scan of
\* the tree reports an unspecified or forbidden entry at that path; stated for the two
\* cases a single full scan decides: a tree it accepts, and the path it fails at.
C8_DiffAgreesWithFull ==
    (pc = "done" /\ checked.called /\ checked.error = "" /\ IsFileOf(tree, checked.path))
        => /\ error = NoError => checked.issue = None
           /\ (error.kind \in {"UnspecifiedEntryError", "ForbiddenEntryError"}
               /\ ErrorEntryPath = checked.path) => checked.issue # None

IssueCodes == {"unspecified_entry", "forbidden_entry", "missing_companion"}

\* C9: check_path returns no issue or an issue that is an unspecified entry, a forbidden
\* entry or a missing companion, never a missing Required entry.
C9_DiffNeverMissingRequired ==
    checked.called => (checked.issue = None \/ checked.issue.code \in IssueCodes)

\* a one-segment path accepted although a Required file entry of its backlog is unmatched
C9_Witness ==
    /\ checked.called
    /\ checked.error = ""
    /\ checked.issue = None
    /\ DictKeys(config.directory_map) = {MapRoot}
    /\ Len(Components(checked.path)) = 1
    /\ LET backlog == _map_dir_to_entry_backlog(config.directory_map,
                                                config.structure_rules, <<>>)
       IN /\ \E i \in 1..Len(backlog) :
                 ~backlog[i].is_dir /\ Denotes(backlog[i].path, checked.path)
          /\ \E i \in 1..Len(backlog) :
                 /\ backlog[i].is_required /\ ~backlog[i].is_dir
                 /\ ~Denotes(backlog[i].path, checked.path)

Reverse(seq) == [i \in 1..Len(seq) |-> seq[Len(seq) + 1 - i]]
Occurrences(seq, Test(_)) == Cardinality({i \in 1..Len(seq) : Test(seq[i])})

BindingParameters == {P \in ParameterMaps : P # <<>> /\ \A j \in 1..Len(P) : P[j].v # <<>>}

\* where the two bindings stand: both in "/", one in "/" and one in "/d/", both in "/d/"
BindingDirectoryMap(b1, b2, placement) ==
    CASE placement = 1 -> << [k |-> MapRoot, v |-> <<UseRule(RuleR), b1, b2>>] >>
      [] placement = 2 -> << [k |-> MapRoot, v |-> <<UseRule(RuleR), b1>>],
                             [k |-> MapD, v |-> <<b2>>] >>
      [] OTHER -> << [k |-> MapRoot, v |-> <<UseRule(RuleR)>>],
                     [k |-> MapD, v |-> <<b1, b2>>] >>

\* the structure rules r and s, or r and a rule the user gave the name that the
\* template t gets in "/"
BindingYamlDict(m, named_alike) ==
    [structure_rules |->
         << [k |-> RuleR, v |-> << [allow |-> <<"a">>] >>],
            [k |-> IF named_alike THEN TemplateRuleName(MapRoot, TemplateT) ELSE RuleS,
             v |-> << [require |-> <<"a", "b">>] >>],
            [k |-> RuleX, v |-> << [allow |-> <<"a">>] >>] >>,
     templates |-> YamlTemplates,
     directory_map |-> m]

InitBindings ==
    /\ \E t1, t2 \in {TemplateT, TemplateV}, P1, P2 \in BindingParameters,
          placement \in 1..3, named_alike \in BOOLEAN :
           yaml_dict = BindingYamlDict(BindingDirectoryMap(UseTemplate(t1, P1),
                                                          UseTemplate(t2, P2), placement),
                                       named_alike)
    /\ config = NotConstructed
    /\ tree = {}
    /\ flags = Flags
    /\ git_ignore = {}
    /\ pc = "idle"
    /\ map_todo = <<>>
    /\ stack = <<>>
    /\ error = NoError
    /\ checked = NoCheck
    /\ batch = NoBatch
    /\ workers = <<>>
    /\ joined = NoJoin
    /\ history = <<>>

SpecBindings == InitBindings /\ [][NextCompile]_vars

\* --------------------------------------------------------- claims on compilation
Constructed == config # NotConstructed

\* the directory-map entries of the YAML, as (directory, entry) pairs
UseMaps ==
    UNION {{<<yaml_dict.directory_map[d].k, yaml_dict.directory_map[d].v[u]>> :
               u \in 1..Len(yaml_dict.directory_map[d].v)} :
           d \in 1..Len(yaml_dict.directory_map)}
YamlTemplatesOf(y) == IF Has(y, "templates") THEN y.templates ELSE <<>>
PiecesOf(name) == IF name = TemplateT THEN PiecesT ELSE PiecesV
\* the number of copies: the length of the longest value list
Copies(parameters) ==
    CHOOSE n \in 0..(MaxValues + 1) :
        /\ \A j \in 1..Len(parameters) : Len(parameters[j].v) <= n
        /\ n = 0 \/ \E j \in 1..Len(parameters) : Len(parameters[j].v) = n
\* what copy i (from 0) puts for a piece: text as it is, a bound key's value by
\* round-robin, an unbound key's placeholder
Rendered(piece, parameters, i) ==
    IF ~Has(piece, "key") THEN piece.lit
    ELSE IF DictHas(parameters, piece.key)
         THEN LET values == DictGet(parameters, piece.key)
              IN values[(i % Len(values)) + 1]
         ELSE Placeholder(piece.key)
RECURSIVE RenderedEntries(_, _, _)
RenderedEntries(entries, parameters, i) ==
    [j \in 1..Len(entries) |->
        LET k == _get_pattern_key(entries[j])
            text == [entries[j] EXCEPT
                        ![k] = Concat([q \in 1..Len(@) |-> Rendered(@[q], parameters, i)])]
        IN IF Has(text, "if_exists")
           THEN [text EXCEPT !.if_exists = RenderedEntries(@, parameters, i)]
           ELSE text]
ExpectedRule(pieces, parameters) ==
    Concat([c \in 1..Copies(parameters) |->
               LET yaml == RenderedEntries(pieces, parameters, c - 1)
               IN [j \in 1..Len(yaml) |-> _parse_entry_to_repo_entry(yaml[j])]])

\* C11: the rule generated for a use of a defined template holds, for each i below the
\* longest value list's length and in that order, one copy of the template's entries in
\* which every placeholder of a parameter, nested if_exists included, is replaced by
\* that parameter's value number i modulo the length of its list.
C11_TemplateExpansion ==
    (Constructed /\ config.error = "") =>
        \A um \in UseMaps :
            (Has(um[2], "use_template")
             /\ DictHas(YamlTemplatesOf(yaml_dict), um[2].use_template)) =>
                LET name == TemplateRuleName(um[1], um[2].use_template)
                IN /\ DictHas(config.structure_rules, name)
                   /\ DictGet(config.structure_rules, name)
                          = Stored(ExpectedRule(PiecesOf(um[2].use_template),
                                                um[2].parameters), name, <<>>)
                   /\ InSeq(name, DictGet(config.directory_map, um[1]))

\* parameters {c: [x, xx], e: [1]}: two copies, the nested pattern of the second is xx_1
C11_Witness ==
    /\ Constructed
    /\ config.error = ""
    /\ \E um \in UseMaps :
           /\ Has(um[2], "use_template")
           /\ um[2].use_template = TemplateT
           /\ um[2].parameters = << [k |-> ParamC, v |-> <<<<"x">>, <<"x", "x">>>>],
                                    [k |-> ParamE, v |-> <<<<"1">>>>] >>
           /\ LET rule == DictGet(config.structure_rules,
                                  TemplateRuleName(um[1], TemplateT))
              IN /\ Len(rule) = 2 * Len(PiecesT)
                 /\ rule[1].if_exists[1].path = <<"x", "_", "1">>
                 /\ rule[3].if_exists[1].path = <<"x", "x", "_", "1">>

RECURSIVE UseRulesOf(_)
\* the use_rule values an entry carries, itself and every entry nested in its if_exists
UseRulesOf(entry) ==
    (IF entry.use_rule # <<>> THEN {entry.use_rule} ELSE {})
    \cup UNION {UseRulesOf(entry.if_exists[i]) : i \in 1..Len(entry.if_exists)}

\* C15: in a compiled configuration every use_rule carried by an entry, at the top
\* level of a structure rule, nested in if_exists or in a template-generated rule,
\* names the rule the entry is defined under (an existing rule); a configuration
\* that breaks this is not compiled.
C15_UseRuleNamesOwnRule ==
    (Constructed /\ config.error = "") =>
        \A i \in 1..Len(config.structure_rules) :
            \A j \in 1..Len(config.structure_rules[i].v) :
                UseRulesOf(config.structure_rules[i].v[j]) \subseteq
                    {config.structure_rules[i].k}

\* the rule names the YAML's directory map binds with use_rule
BoundRuleNames == {um[2].use_rule : um \in {m \in UseMaps : DOMAIN m[2] = {"use_rule"}}}
\* a bound name that is no user-defined rule and not the builtin ignore (a generated
\* rule's name starts with the template prefix, which no bound name here does)
Dangling(name) ==
    /\ ~DictHas(yaml_dict.structure_rules, name)
    /\ name # IGNORE
    /\ Head(name) # TEMPLATE_RULE_PREFIX
UsesNoTemplate == \A um \in UseMaps : ~Has(um[2], "use_template")

\* C16: a directory map that binds a name which is neither a defined structure rule
\* (user-defined or template-generated) nor the builtin ignore is not compiled, and
\* the error is UseRuleError when nothing fails before the validation; in a compiled
\* configuration every name of the directory map is a rule of the configuration or ignore.
C16_DirectoryMapRuleExists ==
    Constructed =>
        /\ (\E name \in BoundRuleNames : Dangling(name)) =>
               /\ config.error # ""
               /\ (UsesNoTemplate /\ _parse_structure_rules(yaml_dict.structure_rules).error = "")
                      => config.error = "UseRuleError"
        /\ config.error = "" =>
               \A i \in 1..Len(config.directory_map) :
                   \A j \in 1..Len(config.directory_map[i].v) :
                       \/ DictHas(config.structure_rules, config.directory_map[i].v[j])
                       \/ config.directory_map[i].v[j] = IGNORE

\* the root directory is bound to the undefined rule x and the structure rules are valid
C16_Witness ==
    /\ Constructed
    /\ RuleX \in BoundRuleNames
    /\ Dangling(RuleX)
    /\ _parse_structure_rules(yaml_dict.structure_rules).error = ""
    /\ config.error = "UseRuleError"

\* a use of a template that the YAML's templates section does not define
UndefinedTemplateUse(um) ==
    /\ Has(um[2], "use_template")
    /\ ~DictHas(YamlTemplatesOf(yaml_dict), um[2].use_template)

\* C17: compiling a directory-map entry whose use_template names an undefined template
\* raises TemplateError, whatever parameters map comes with it (the structure rules
\* being valid, so that the compilation reaches the templates).
C17_UndefinedTemplateRaises ==
    Constructed =>
        \A um \in UseMaps :
            (UndefinedTemplateUse(um)
             /\ _parse_structure_rules(yaml_dict.structure_rules).error = "")
                => config.error = "TemplateError"

RECURSIVE EntriesOf(_)
\* an entry and every entry nested in its if_exists
EntriesOf(entry) ==
    {entry} \cup UNION {EntriesOf(entry.if_exists[i]) : i \in 1..Len(entry.if_exists)}
CompiledEntries ==
    UNION {UNION {EntriesOf(config.structure_rules[i].v[j]) :
                     j \in 1..Len(config.structure_rules[i].v)} :
              i \in 1..Len(config.structure_rules)}

\* C18: every entry of a compiled configuration is exactly one of Required, Optional
\* and Forbidden (never required and forbidden at once), and carries a use_rule only
\* if it is a directory entry.
C18_EntryWellFormed ==
    (Constructed /\ config.error = "") =>
        \A entry \in CompiledEntries :
            /\ ~(entry.is_required /\ entry.is_forbidden)
            /\ entry.use_rule # <<>> => entry.is_dir

\* ----------------------------------------------------- claims on the full scan, ctd.
IsMapped(rel_dir) == DictHas(config.directory_map, rel_dir_to_map_dir(rel_dir))
ResetCounts(backlog) == [i \in 1..Len(backlog) |-> [backlog[i] EXCEPT !.count = 0]]

\* C14: the traversal of a mapping never matches a directory that has a mapping of
\* its own, raises nothing for it and never enters it; the contents of a mapped
\* directory are scanned by the one call started for its mapping, against the
\* backlog built from its own rule names, also where a use_rule entry of the
\* enclosing mapping matches its name.
C14_MappedDirectoryOwnBacklog ==
    /\ \A k \in 1..Len(stack) :
           /\ IsMapped(stack[k].rel_dir) <=> k = 1
           /\ (stack[k].entry.is_dir
               /\ IsMapped(PathJoin(stack[k].entry.rel_dir, stack[k].entry.path))) =>
                  /\ stack[k].pending = <<>>
                  /\ k = Len(stack)
                  /\ ~RaisedAt(stack[k].entry)
    /\ stack # <<>> =>
           ResetCounts(stack[1].backlog)
               = _map_dir_to_entry_backlog(config.directory_map, config.structure_rules,
                                           stack[1].rel_dir)

\* the root's backlog has a use_rule entry that matches d, d has its own mapping, and
\* the root traversal has just taken d from the listing while d's own scan is over
C14_Witness ==
    /\ pc = "scan"
    /\ Len(stack) = 1
    /\ stack[1].rel_dir = <<>>
    /\ stack[1].entry.is_dir
    /\ IsMapped(stack[1].entry.path)
    /\ \E i \in 1..Len(stack[1].backlog) :
           /\ stack[1].backlog[i].use_rule # <<>>
           /\ Satisfies(stack[1].backlog[i], stack[1].entry)
    /\ ~InSeq(rel_dir_to_map_dir(stack[1].entry.path), map_todo)
    /\ \E e \in tree : e.rel_dir = stack[1].entry.path

\* ------------------------------------------------- claims on repeated scans
\* C19: whatever full scans and path checks have run, passing or failing, the
\* Configuration is the one that was compiled: its structure rules and directory map
\* are unchanged and every entry it holds, nested ones included, has count 0; a scan
\* repeated on the same tree passes exactly if the scans before it passed.
C19_ConfigurationNotMutated ==
    /\ config = Configuration(yaml_dict)
    /\ \A entry \in CompiledEntries : entry.count = 0
    /\ \A i \in 1..Len(history) : history[i] <=> history[1]
    /\ (pc = "done" /\ history # <<>>) => (error.kind = "" <=> history[1])

\* the second scan has ended after a first one that counted matches of entries built
\* from a use_rule and from if_exists, and a path check ran in between
C19_Witness ==
    /\ pc = "done"
    /\ Len(history) = 1
    /\ checked.called
    /\ Len(stack) > 1
    /\ \E k \in 1..Len(stack) : \E i \in 1..Len(stack[k].backlog) :
           stack[k].backlog[i].count > 0
    /\ \E entry \in CompiledEntries : entry.id.at # <<>> /\ Len(entry.id.at) > 1

\* ------------------------------------------------ claims on the scan with jobs > 1
\* C20: the scan with jobs > 1 succeeds exactly if the scan with jobs = 1 of the same
\* tree and Configuration does, however the steps of the workers interleave; a
\* failure of any worker fails the scan, and every worker's backlog and
\* Configuration are its own: the counts of its backlog are those of the entries it
\* matched itself, and the caller's Configuration stays as compiled.
C20_ParallelAgreesWithSequential ==
    /\ (joined.done /\ pc = "done") => (joined.error = NoError <=> error = NoError)
    /\ joined.done =>
           (joined.error # NoError <=>
                \E w \in 1..Len(workers) : workers[w].error # NoError)
    /\ \A w \in 1..Len(workers) :
           /\ workers[w].config = config
           /\ \A k \in 1..Len(workers[w].stack) :
                  LET f == workers[w].stack[k]
                  IN \A i \in 1..Len(f.backlog) :
                         f.backlog[i].count =
                             Cardinality({e \in Processed(f) \ (IF f.pending # <<>>
                                                                THEN {f.entry} ELSE {}) :
                                             /\ ~Skipped(e)
                                             /\ EntryMatches(f.backlog[i], e.path, e.is_dir)})
                             + (IF f.pending # <<>> /\ f.entry.is_dir
                                   /\ EntryMatches(f.backlog[i], f.entry.path, TRUE)
                                   /\ ~InSeq(i, f.pending)
                                THEN 1 ELSE 0)
    /\ config = Configuration(yaml_dict)

\* both scans have ended in failure: the first worker passed, the second raised
C20_Witness ==
    /\ joined.done
    /\ pc = "done"
    /\ Len(workers) = 2
    /\ workers[1].error = NoError
    /\ workers[2].error # NoError
    /\ error # NoError

\* ------------------------------------------- claims on an ignored directory
\* the directories the directory map binds to the builtin rule ignore alone
IgnoredDirs ==
    {map_dir_to_rel_dir(config.directory_map[i].k) :
        i \in {j \in 1..Len(config.directory_map) : config.directory_map[j].v = <<IGNORE>>}}
\* the path lies below the directory
Below(path, dir) ==
    /\ Len(Components(path)) > Len(Components(dir))
    /\ SubSeq(Components(path), 1, Len(Components(dir))) = Components(dir)

\* C12: a configuration that maps a directory to the builtin rule ignore compiles
\* without a rule of that name, and neither the full scan nor check_path reports an
\* issue for an entry below that directory, whatever the entry is.
C12_IgnoredSubtreeNoIssue ==
    /\ config.error = ""
    /\ \A dir \in IgnoredDirs :
           /\ \A e \in tree : Below(EntryPath(e), dir) => ~RaisedAt(e)
           /\ \A k \in 1..Len(stack) :
                  (stack[k].rel_dir = dir \/ Below(stack[k].rel_dir, dir)) =>
                      error.kind # "MissingRequiredEntriesError"
           /\ (checked.called /\ Below(checked.path, dir)) =>
                  (checked.error = "" /\ checked.issue = None)

\* --------------------------------------------------- claims on companion files
CompanionSuffixes == << <<".", "h">>, <<".", "t">> >>
\* the file name of a path, and the directory it lies in
BaseName(path) == Components(path)[Len(Components(path))]
DirName(path) == JoinWith(SubSeq(Components(path), 1, Len(Components(path)) - 1), SLASH)
\* the checked file matches the entry '(?P<b>.*)\.c' of rule r
MatchesMain(path) ==
    /\ Len(BaseName(path)) >= 2
    /\ SubSeq(BaseName(path), Len(BaseName(path)) - 1, Len(BaseName(path))) = <<".", "c">>
\* the companion file names the entry asks for, built from the file name
ExpectedCompanions(path) ==
    LET name == BaseName(path)
        n == Len(RequiresCompanion(DictGet(yaml_dict.structure_rules, RuleR)[1]))
    IN {SubSeq(name, 1, Len(name) - 2) \o CompanionSuffixes[i] : i \in 1..n}
MissingCompanions(path) ==
    {c \in ExpectedCompanions(path) :
        ~\E e \in tree : e.rel_dir = DirName(path) /\ e.path = c}

SkipPredicate(e) ==
    \/ (e.is_symlink /\ ~flags.follow_symlinks)
    \/ (Head(e.path) = "." /\ ~flags.include_hidden)
    \/ (e.path = GITIGNORE_NAME /\ ~e.is_dir)
    \/ (e.path = GIT_NAME /\ e.is_dir)
    \/ e.path \in git_ignore
    \/ (e.is_dir /\ DictHas(config.directory_map, <<SLASH>> \o EntryPath(e) \o <<SLASH>>))
    \/ (e.rel_dir = <<>> /\ e.path = config.configuration_file_name)
\* the processed entries of a call's directory that are not skipped and fit the entry
CountableFor(f, v) == {e \in Processed(f) : ~SkipPredicate(e) /\ Satisfies(v, e)}

\* C21: an entry for which the skip predicate holds raises no unspecified or forbidden
\* error, adds to no count, and is not descended into; a scan passes only if every
\* Required entry of the root's rule is satisfied by an entry that is not skipped.
C21_SkippedNeverMatched ==
    /\ \A e \in tree : SkipPredicate(e) =>
           /\ ~RaisedAt(e)
           /\ \A k \in 2..Len(stack) : stack[k].rel_dir # EntryPath(e)
    /\ \A k \in 1..Len(stack) : \A i \in 1..Len(stack[k].backlog) :
           stack[k].backlog[i].count <= Cardinality(CountableFor(stack[k], stack[k].backlog[i]))
    /\ (pc = "done" /\ error.kind = "") =>
           \A i \in 1..Len(DictGet(config.structure_rules, RuleR)) :
               LET v == DictGet(config.structure_rules, RuleR)[i]
               IN v.is_required =>
                      \E e \in ScanDir(tree, <<>>) : ~SkipPredicate(e) /\ Satisfies(v, e)

\* a root that holds a hidden file, the configuration file and the directory .git
\* with a file in it, all of them skipped, fails for the Required pattern .*
C21_Witness ==
    /\ pc = "done"
    /\ error.kind = "MissingRequiredEntriesError"
    /\ ~flags.include_hidden
    /\ config.configuration_file_name = NameConfig
    /\ tree = {SkipEntry(<<>>, NameHidden, FALSE, FALSE), SkipEntry(<<>>, NameConfig, FALSE, FALSE),
               SkipEntry(<<>>, GIT_NAME, TRUE, FALSE), SkipEntry(GIT_NAME, NameA, FALSE, FALSE)}
    /\ DictGet(yaml_dict.structure_rules, RuleR) = << [require |-> <<STAR>>] >>

\* ------------------------------------------- claims on the diff scan's mapping
\* a key of the directory map names a directory the path lies below
HasEnclosingKey(path) ==
    \E key \in DictKeys(config.directory_map) : Below(path, map_dir_to_rel_dir(key))

\* C22: check_path on a path without an enclosing key of the directory map, the root
\* key absent, fails with MissingMappingError.
C22_NoEnclosingMappingError ==
    (checked.called /\ ~DictHas(config.directory_map, MapRoot)
        /\ ~HasEnclosingKey(checked.path)) =>
        checked.error = "MissingMappingError"

\* ------------------------------------------------ claims on the scope of a backlog
\* a copy of its own of an entry, never matched
Fresh(e) == [e EXCEPT !.count = 0, !.id = NewObject]
\* the copies of the entries of the matched entry's use_rule rule, as compiled, and
\* then of its if_exists entries
ExpectedChildBacklog(entry) ==
    LET rule == IF entry.use_rule = <<>> THEN <<>>
                ELSE DictGet(Configuration(yaml_dict).structure_rules, entry.use_rule)
    IN [i \in 1..Len(rule) |-> Fresh(rule[i])]
       \o [i \in 1..Len(entry.if_exists) |-> Fresh(entry.if_exists[i])]

\* C23: the backlog of a matched directory is made of fresh copies, count 0, of the
\* entries of the matched entry's use_rule rule followed by its if_exists entries and
\* of nothing else; entering it adds one to the matched entry's count and changes no
\* other backlog, and the steps inside it and its return change no enclosing backlog.
C23_ChildBacklogOwnScope ==
    [][ /\ (Len(stack) >= 1 /\ Len(stack') = Len(stack) + 1) =>
               /\ stack'[Len(stack')].backlog =
                      ExpectedChildBacklog(Top.backlog[Head(Top.pending)])
               /\ \A k \in 1..(Len(stack) - 1) : stack'[k] = stack[k]
               /\ stack'[Len(stack)].backlog =
                      [Top.backlog EXCEPT ![Head(Top.pending)].count = @ + 1]
        /\ (Len(stack) >= 1 /\ Len(stack') = Len(stack)) =>
               \A k \in 1..(Len(stack) - 1) : stack'[k] = stack[k]
        /\ (Len(stack') >= 1 /\ Len(stack') < Len(stack)) =>
               stack' = SubSeq(stack, 1, Len(stack'))
      ]_vars

\* the directory d held the file ab its if_exists entry requires; the scan is now at
\* the end of its sibling e, whose copy of that entry is still unmatched
C23_Witness ==
    /\ Len(stack) = 2
    /\ Top.rel_dir = NameE
    /\ Top.todo = {}
    /\ FsEntry(<<>>, NameD, TRUE) \in tree \ stack[1].todo
    /\ FsEntry(NameD, NameAB, FALSE) \in tree
    /\ ~DictHas(config.directory_map, MapD)
    /\ \E i \in 1..Len(Top.backlog) :
           /\ Top.backlog[i].path = NameAB
           /\ Top.backlog[i].is_required
           /\ Top.backlog[i].count = 0
    /\ \E j \in 1..Len(stack[1].backlog) : stack[1].backlog[j].count = 2

\* the keys of the directory map that name a directory above the path, "/" included
EnclosingKeys(path) ==
    {key \in DictKeys(config.directory_map) : Below(path, map_dir_to_rel_dir(key))}
\* the longest of them, "/" when there is none
LongestKey(path) ==
    IF EnclosingKeys(path) = {} THEN MapRoot
    ELSE CHOOSE key \in EnclosingKeys(path) :
             \A other \in EnclosingKeys(path) : Len(other) <= Len(key)
RECURSIVE WalkBelow(_, _)
\* the segments matched one after the other: the issue of the first that fails
WalkBelow(backlog, names) ==
    IF names = <<>> THEN None
    ELSE LET m == _get_matching_item_index_safe(backlog, Head(names), Len(names) > 1)
         IN IF ~m.success THEN m.issue
            ELSE IF Len(names) = 1 THEN None
            ELSE WalkBelow(NextBacklog(backlog[m.index], config.structure_rules), Tail(names))
\* the segments of the path below the key
SegmentsBelow(path, key) ==
    SubSeq(Components(path), Len(Components(map_dir_to_rel_dir(key))) + 1,
           Len(Components(path)))

\* C24: check_path matches the segments of the path below the longest enclosing key of
\* the directory map, "/" when no key encloses it, against the backlog of that key,
\* and reports what that matching finds.
C24_LongestPrefixMapping ==
    (checked.called /\ DictHas(config.directory_map, LongestKey(checked.path))) =>
        LET key == LongestKey(checked.path)
            backlog == _map_dir_to_entry_backlog(config.directory_map, config.structure_rules,
                                                 map_dir_to_rel_dir(key))
            found == WalkBelow(backlog, SegmentsBelow(checked.path, key))
        IN /\ checked.error = ""
           /\ backlog # <<>> => checked.issue.code = found.code


\* C25: when the first directory segment below the key matches, the backlog check_path
\* goes on with is the one the full scan builds for the matched entry: the copies of
\* its use_rule rule's entries followed by the copies of its if_exists entries.
C25_DiffBacklogAsFullScan ==
    (checked.called /\ DictHas(config.directory_map, LongestKey(checked.path))
        /\ Len(SegmentsBelow(checked.path, LongestKey(checked.path))) > 1) =>
        LET key == LongestKey(checked.path)
            backlog == _map_dir_to_entry_backlog(config.directory_map, config.structure_rules,
                                                 map_dir_to_rel_dir(key))
            m == _get_matching_item_index_safe(backlog, SegmentsBelow(checked.path, key)[1], TRUE)
            entry == [path |-> SegmentsBelow(checked.path, key)[1], rel_dir |-> <<>>,
                      is_dir |-> TRUE, is_symlink |-> FALSE]
        IN (m.success /\ ~_skip_entry(entry, config.directory_map,
                                       config.configuration_file_name, {}, flags)) =>
               NextBacklog(backlog[m.index], config.structure_rules)
                   = ConcatBacklog(backlog[m.index], config.structure_rules)

\* -------------------------------------------------- claims on several matches
RECURSIVE Ascending(_, _)
\* the members of a set of indices, smallest first, from index i on
Ascending(S, i) ==
    IF S = {} THEN <<>>
    ELSE IF i \in S THEN <<i>> \o Ascending(S \ {i}, i + 1)
    ELSE Ascending(S, i + 1)
\* the indices of the entries of a backlog that fit the entry
FittingIndices(backlog, e) ==
    Ascending({i \in 1..Len(backlog) : Satisfies(backlog[i], e)}, 1)

\* C26: a directory that fits k entries of the backlog is descended into k times, once
\* for each of the k entries in backlog order: each descent counts its entry, lists the
\* whole directory with the backlog built from that entry alone, and returns only
\* after its own Required entries were all matched; the scan of the parent goes on
\* only when no descent is left.
C26_OneDescentPerMatch ==
    [][ /\ (stack # <<>> /\ Len(stack') = Len(stack) /\ stack' # stack
             /\ Top'.entry.is_dir /\ ~Skipped(Top'.entry) /\ error' = NoError) =>
               /\ Top.pending = <<>>
               /\ Top'.pending = FittingIndices(Top.backlog, Top'.entry)
               /\ Top'.pending # <<>>
        /\ (stack # <<>> /\ Top.pending # <<>>) =>
               /\ Len(stack') = Len(stack) + 1
               /\ stack'[Len(stack)].pending = Tail(Top.pending)
               /\ stack'[Len(stack)].backlog[Head(Top.pending)].count
                      = Top.backlog[Head(Top.pending)].count + 1
               /\ Top'.rel_dir = EntryPath(Top.entry)
               /\ Top'.todo = ScanDir(tree, EntryPath(Top.entry))
               /\ Top'.backlog = ExpectedChildBacklog(Top.backlog[Head(Top.pending)])
        /\ (Len(stack) > 1 /\ Len(stack') < Len(stack)) =>
               /\ Top.todo = {} /\ Top.pending = <<>>
               /\ Unmatched(Top.backlog, TRUE) = <<>> /\ Unmatched(Top.backlog, FALSE) = <<>>
               /\ stack' = SubSeq(stack, 1, Len(stack) - 1)
      ]_vars

\* the second descent into a directory that fits two entries, after the first returned
C26_Witness ==
    /\ Len(stack) = 2
    /\ stack[1].pending = <<>>
    /\ Len(FittingIndices(stack[1].backlog, stack[1].entry)) = 2
    /\ \A i \in 1..Len(stack[1].backlog) : stack[1].backlog[i].count = 1
    /\ Top.rel_dir = EntryPath(stack[1].entry)
    /\ Top.backlog = ExpectedChildBacklog(stack[1].backlog[2])
    /\ Top.backlog # ExpectedChildBacklog(stack[1].backlog[1])
    /\ Top.todo # ScanDir(tree, Top.rel_dir)

\* ------------------------------------------------ claims on the order of a scan
\* the entries the rules bound to a key contribute, whatever was counted
KeyBacklog(key) ==
    LET names == DictGet(config.directory_map, key)
    IN Concat([i \in 1..Len(names) |-> DictGet(Configuration(yaml_dict).structure_rules, names[i])])
\* the entries of a backlog that fit the entry
Fitting(backlog, e) == {i \in 1..Len(backlog) : Satisfies(backlog[i], e)}
RECURSIVE ScopeConforms(_, _)
\* a directory conforms to a backlog, said without any order: every entry that is not
\* skipped fits an entry and no Forbidden one, a directory conforms to the backlog of
\* each entry it fits, and every Required entry is fitted
ScopeConforms(dir, backlog) ==
    /\ \A e \in ScanDir(tree, dir) :
           ~Skipped(e) =>
               /\ Fitting(backlog, e) # {}
               /\ \A i \in Fitting(backlog, e) :
                      /\ ~backlog[i].is_forbidden
                      /\ e.is_dir => ScopeConforms(EntryPath(e), ExpectedChildBacklog(backlog[i]))
    /\ \A i \in 1..Len(backlog) :
           backlog[i].is_required =>
               \E e \in ScanDir(tree, dir) : ~Skipped(e) /\ Satisfies(backlog[i], e)
\* the mapped directory of a key exists and conforms to the rules bound to the key
KeyConforms(key) ==
    /\ IsDirectory(tree, map_dir_to_rel_dir(key))
    /\ ScopeConforms(map_dir_to_rel_dir(key), KeyBacklog(key))
TreeConforms ==
    /\ DictHas(config.directory_map, MapRoot)
    /\ \A key \in DictKeys(config.directory_map) : KeyConforms(key)

\* C27: whatever the order in which the children of a directory are listed and the
\* keys of the directory map are visited, a finished full scan has raised no error
\* exactly if the tree conforms to the configuration.
C27_VerdictOrderFree ==
    pc = "done" => ((error.kind = "") <=> TreeConforms)

\* the scan, with "/" listed last, ended with an error of the directory d while the
\* root has an error of its own, which the other order of the keys raises first
C27_Witness ==
    /\ pc = "done"
    /\ config.directory_map[1].k = MapD
    /\ config.directory_map[2].k = MapRoot
    /\ error.kind = "MissingRequiredEntriesError"
    /\ Cardinality(tree) > 1
    /\ ~KeyConforms(MapD)
    /\ \E e \in ScanDir(tree, <<>>) : ~Skipped(e) /\ Fitting(KeyBacklog(MapRoot), e) = {}

\* ---------------------------------------------------------- claims on termination
\* C28: every full scan ends, by returning or by raising, also with a rule that applies
\* itself below a directory and, with follow_symlinks, with links to an ancestor.
C28_ScanTerminates == <>(pc = "done")

\* a scan that followed links to the root, under a rule that applies itself below every
\* directory, and ended when the system refused to resolve the path
C28_Witness ==
    /\ pc = "done"
    /\ flags.follow_symlinks
    /\ LinkToRoot(<<>>) \in tree
    /\ error.kind = "OSError"
    /\ Len(stack) > MaxLinks

\* ------------------------------------------------ claims on template rule names
\* the use_template bindings of the YAML, as <<directory index, entry index>>
Bindings ==
    {b \in UNION {{<<d, u>> : u \in 1..Len(yaml_dict.directory_map[d].v)} :
                     d \in 1..Len(yaml_dict.directory_map)} :
        Has(yaml_dict.directory_map[b[1]].v[b[2]], "use_template")}
BindingDirectory(b) == yaml_dict.directory_map[b[1]].k
BindingEntry(b) == yaml_dict.directory_map[b[1]].v[b[2]]
BindingName(b) == TemplateRuleName(BindingDirectory(b), BindingEntry(b).use_template)
\* the synthetic rule of the binding is stored with the binding's own expansion
BindingKept(b) ==
    /\ DictHas(config.structure_rules, BindingName(b))
    /\ DictGet(config.structure_rules, BindingName(b))
           = Stored(ExpectedRule(PiecesOf(BindingEntry(b).use_template),
                                 BindingEntry(b).parameters), BindingName(b), <<>>)
\* the rules the user defined, as the structure rules section alone compiles them
UserRules == _parse_structure_rules(yaml_dict.structure_rules).rules

\* C29: two distinct use_template bindings never get the same synthetic rule name and
\* never overwrite each other's generated entries, and no generated rule replaces a
\* rule the user defined.
C29_TemplateNamesUnique ==
    (Constructed /\ config.error = "") =>
        /\ \A b1, b2 \in Bindings : b1 # b2 => BindingName(b1) # BindingName(b2)
        /\ \A b \in Bindings : BindingKept(b)
        /\ \A j \in 1..Len(UserRules) :
               DictGet(config.structure_rules, UserRules[j].k) = UserRules[j].v

\* ------------------------------------- claims on the place of the required check
RECURSIVE SubtreeClean(_, _)
\* no entry below the directory is unspecified or forbidden: every entry that is not
\* skipped fits an entry of the backlog and no Forbidden one, and so on below every
\* directory, for the backlog of each entry it fits
SubtreeClean(dir, backlog) ==
    \A e \in ScanDir(tree, dir) :
        ~Skipped(e) =>
            /\ Fitting(backlog, e) # {}
            /\ \A i \in Fitting(backlog, e) :
                   /\ ~backlog[i].is_forbidden
                   /\ e.is_dir => SubtreeClean(EntryPath(e), ExpectedChildBacklog(backlog[i]))

\* the step raises the error of the missing-required check
RaisesMissingRequired ==
    error.kind = "" /\ error'.kind = "MissingRequiredEntriesError"

\* C30: the missing-required check of a scope runs when every child of the scope has
\* been processed, its subtree included, so it raises only if nothing below the scope
\* is unspecified or forbidden; and once an error is raised the scan takes no step.
C30_RequiredCheckedLast ==
    [][/\ pc # "done"
       /\ RaisesMissingRequired =>
              /\ ScopeFinished
              /\ SubtreeClean(Top.rel_dir, Top.backlog)]_vars

\* the root's check raised after a directory of the root and the entries in it were
\* processed; the directory's own check had passed
C30_Witness ==
    /\ pc = "done"
    /\ error.kind = "MissingRequiredEntriesError"
    /\ Len(stack) = 1
    /\ \E d \in ScanDir(tree, <<>>) :
           /\ d.is_dir
           /\ ~Skipped(d)
           /\ ScanDir(tree, EntryPath(d)) # {}
           /\ \E i \in Fitting(stack[1].backlog, d) :
                  ExpectedChildBacklog(stack[1].backlog[i]) # <<>>

====
